---------------------------- MODULE Spec2Model ----------------------------
(***************************************************************************)
(* Model of the notebook-course-agent text-to-document pipeline:           *)
(*   src/src/parser.py   ContentParser  (line scanner -> Section list)     *)
(*   src/src/builder.py  HTMLBuilder    (render + template substitution)   *)
(*                                                                         *)
(* A Python str is modelled as a sequence of Unicode code points (ord of   *)
(* each character), so that regular expressions, strip/split/replace and   *)
(* the emoji test are computed on characters exactly as the code does.     *)
(***************************************************************************)
EXTENDS Integers, Sequences, FiniteSets, TLC

(***************************************************************************)
(* Characters                                                              *)
(***************************************************************************)
NL == 10
SP == 32
COLON == 58
DOT == 46
COMMA == 44
RPAREN == 41
DASH == 45
STAR == 42
ZERO == 48
FIVE == 53

\* str.isspace() and the regex class \s on str patterns (the same set).
WhiteSpace ==
    {9, 10, 11, 12, 13, 28, 29, 30, 31, 32, 133, 160, 5760} \cup (8192 .. 8202)
        \cup {8232, 8233, 8239, 8287, 12288}

\* The regex class \d restricted to the digits the inputs of this model use
\* (the ASCII digits "0".."9").
Digits == 48 .. 57

\* [U+2022 U+25CF] of RE_BULLET and [U+25E6 U+25CB] of RE_SUB_BULLET.
BulletGlyphs == {8226, 9679}
SubBulletGlyphs == {9702, 9675}

\* _has_emoji: ord(ch) > 0x1F000.
EmojiThreshold == 126976

IsSpace(c) == c \in WhiteSpace
IsDigit(c) == c \in Digits

(***************************************************************************)
(* str primitives                                                          *)
(***************************************************************************)
\* s[i-1:] of Python, 1-based: the suffix of s starting at position i.
From(s, i) == SubSeq(s, i, Len(s))

\* text.startswith(p)
StartsWith(s, p) == Len(p) <= Len(s) /\ SubSeq(s, 1, Len(p)) = p

\* Number of leading characters of s, from position i on, that lie in set S.
RECURSIVE RunLen(_, _, _)
RunLen(s, i, S) ==
    IF i <= Len(s) /\ s[i] \in S THEN 1 + RunLen(s, i + 1, S) ELSE 0

\* Number of trailing whitespace characters of s.
RECURSIVE TrailLen(_, _)
TrailLen(s, n) ==
    IF n >= 1 /\ IsSpace(s[n]) THEN 1 + TrailLen(s, n - 1) ELSE 0

\* str.strip(): drops leading and trailing whitespace.
Strip(s) ==
    LET lead == RunLen(s, 1, WhiteSpace)
    IN  IF lead = Len(s) THEN <<>>
        ELSE SubSeq(s, lead + 1, Len(s) - TrailLen(s, Len(s)))

\* Position of the first occurrence of character c in s at or after i, or 0.
RECURSIVE IndexOf(_, _, _)
IndexOf(s, c, i) ==
    IF i > Len(s) THEN 0
    ELSE IF s[i] = c THEN i
    ELSE IndexOf(s, c, i + 1)

\* str.split("\n"): always at least one (possibly empty) line.
RECURSIVE SplitLines(_)
SplitLines(s) ==
    LET k == IndexOf(s, NL, 1)
    IN  IF k = 0 THEN <<s>>
        ELSE <<SubSeq(s, 1, k - 1)>> \o SplitLines(From(s, k + 1))

\* sep.join(parts)
RECURSIVE Join(_, _)
Join(sep, parts) ==
    IF parts = <<>> THEN <<>>
    ELSE IF Len(parts) = 1 THEN parts[1]
    ELSE parts[1] \o sep \o Join(sep, Tail(parts))

\* Position of the first occurrence of the non-empty string p in s at or
\* after i, or 0.
RECURSIVE Find(_, _, _)
Find(s, p, i) ==
    IF i + Len(p) - 1 > Len(s) THEN 0
    ELSE IF SubSeq(s, i, i + Len(p) - 1) = p THEN i
    ELSE Find(s, p, i + 1)

\* str.replace(old, new) for a non-empty old: every non-overlapping
\* occurrence, scanning left to right; the inserted text is not rescanned.
RECURSIVE Replace(_, _, _)
Replace(s, old, new) ==
    LET k == Find(s, old, 1)
    IN  IF k = 0 THEN s
        ELSE SubSeq(s, 1, k - 1) \o new \o Replace(From(s, k + Len(old)), old, new)


(***************************************************************************)
(* ContentParser: the regular expressions (parser.py:20-25)                *)
(*                                                                         *)
(* A match result is [ok |-> BOOLEAN, g |-> group(1)].  The lines matched  *)
(* come from split("\n") and so hold no "\n": "." matches every character  *)
(* of them and "$" is their end.                                           *)
(***************************************************************************)
NoMatch == [ok |-> FALSE, g |-> <<>>]
Matched(g) == [ok |-> TRUE, g |-> g]

\* "\s+(.+)$" tried at position p of s: \s+ is greedy and gives one character
\* back when the whitespace run reaches the end of s.
RestAfterSpaces(s, p) ==
    LET w == RunLen(s, p, WhiteSpace)
    IN  IF w = 0 THEN NoMatch
        ELSE IF p + w <= Len(s) THEN Matched(From(s, p + w))
        ELSE IF w >= 2 THEN Matched(<<s[Len(s)]>>)
        ELSE NoMatch

\* RE_NUMBERED_HEADER = ^\d+\.\s+(.+?)[\s]*$ : the lazy group is the shortest
\* non-empty text after which only whitespace is left.
RE_NUMBERED_HEADER(s) ==
    LET d == RunLen(s, 1, Digits)
        r == RestAfterSpaces(s, d + 2)
    IN  IF d = 0 \/ d + 1 > Len(s) \/ s[d + 1] # DOT \/ ~r.ok THEN NoMatch
        ELSE IF Len(r.g) = 1 THEN r
        ELSE Matched(SubSeq(r.g, 1, Len(r.g) - TrailLen(r.g, Len(r.g))))

\* RE_BULLET = ^[U+2022 U+25CF]\s+(.+)$
RE_BULLET(s) ==
    IF Len(s) >= 1 /\ s[1] \in BulletGlyphs THEN RestAfterSpaces(s, 2) ELSE NoMatch

\* RE_SUB_BULLET = ^\s+[U+25E6 U+25CB]\s+(.+)$
RE_SUB_BULLET(s) ==
    LET lead == RunLen(s, 1, WhiteSpace)
    IN  IF lead >= 1 /\ lead + 1 <= Len(s) /\ s[lead + 1] \in SubBulletGlyphs
        THEN RestAfterSpaces(s, lead + 2)
        ELSE NoMatch

\* RE_FOOTNOTE = \d{1,2}(?:,\d{1,2})*\.?(?:\.\.\.\.|\.{0,3})(?=\s|$|[,)])
\* Each operator below lists, in the order the backtracking matcher tries them,
\* the positions at which one part of the pattern can end.
DigitEnds(s, p) ==                             \* \d{1,2}, greedy
    IF p <= Len(s) /\ IsDigit(s[p])
    THEN IF p + 1 <= Len(s) /\ IsDigit(s[p + 1]) THEN <<p + 2, p + 1>> ELSE <<p + 1>>
    ELSE <<>>

RECURSIVE GroupEnds(_, _)
GroupEnds(s, q) ==                             \* (?:,\d{1,2})*, greedy
    LET dc == IF q <= Len(s) /\ s[q] = COMMA THEN DigitEnds(s, q + 1) ELSE <<>>
    IN  (IF Len(dc) >= 1 THEN GroupEnds(s, dc[1]) ELSE <<>>)
            \o (IF Len(dc) >= 2 THEN GroupEnds(s, dc[2]) ELSE <<>>)
            \o <<q>>

OptDotEnds(s, q) ==                            \* \.?
    IF q <= Len(s) /\ s[q] = DOT THEN <<q + 1, q>> ELSE <<q>>

EllipsisEnds(s, q) ==                          \* (?:\.\.\.\.|\.{0,3})
    LET n == RunLen(s, q, {DOT})
        m == IF n > 3 THEN 3 ELSE n
    IN  (IF n >= 4 THEN <<q + 4>> ELSE <<>>) \o [k \in 1 .. m + 1 |-> q + m + 1 - k]

RECURSIVE CatEllipsis(_, _)
CatEllipsis(s, qs) ==
    IF qs = <<>> THEN <<>> ELSE EllipsisEnds(s, Head(qs)) \o CatEllipsis(s, Tail(qs))

RECURSIVE CatOptDot(_, _)
CatOptDot(s, qs) ==
    IF qs = <<>> THEN <<>>
    ELSE CatEllipsis(s, OptDotEnds(s, Head(qs))) \o CatOptDot(s, Tail(qs))

RECURSIVE CatGroup(_, _)
CatGroup(s, qs) ==
    IF qs = <<>> THEN <<>>
    ELSE CatOptDot(s, GroupEnds(s, Head(qs))) \o CatGroup(s, Tail(qs))

FootnoteLookahead(s, e) ==                     \* (?=\s|$|[,)])
    e > Len(s) \/ IsSpace(s[e]) \/ s[e] \in {COMMA, RPAREN}

RECURSIVE FirstAccepted(_, _)
FirstAccepted(s, es) ==
    IF es = <<>> THEN 0
    ELSE IF FootnoteLookahead(s, Head(es)) THEN Head(es)
    ELSE FirstAccepted(s, Tail(es))

\* RE_FOOTNOTE.match at position p: the position after the match, or 0.
RE_FOOTNOTE(s, p) == FirstAccepted(s, CatGroup(s, DigitEnds(s, p)))

\* RE_FOOTNOTE.sub("", s) from position p on: leftmost matches, each removed,
\* the scan going on after the match.
RECURSIVE FootnoteSub(_, _)
FootnoteSub(s, p) ==
    IF p > Len(s) THEN <<>>
    ELSE LET e == RE_FOOTNOTE(s, p)
         IN  IF e = 0 THEN <<s[p]>> \o FootnoteSub(s, p + 1)
             ELSE FootnoteSub(s, e)

\* _clean_text
CleanText(s) == Strip(FootnoteSub(s, 1))

\* _has_emoji with ">=" for ">".
HasEmojiInclusive(s) == \E i \in 1 .. Len(s) : s[i] >= EmojiThreshold

\* _has_emoji
HasEmoji(s) == \E i \in 1 .. Len(s) : s[i] > EmojiThreshold

\* TIP_TRIGGERS, in the dict's (insertion) order; the phrases are Hebrew.
TIP_TRIGGERS ==
    << [variant |-> "pro",
        triggers |-> << <<1496, 1497, 1508>>,
                        <<1492, 1496, 1497, 1508, 32, 1513, 1500>>,
                        <<1496, 1497, 1508, 32, 1502, 1511, 1510, 1493, 1506, 1497>>,
                        <<1496, 1497, 1508, 32, 1513, 1500>> >>],
       [variant |-> "warning",
        triggers |-> << <<1488, 1494, 1492, 1512, 1492>>,
                        <<1494, 1492, 1497, 1512, 1493, 1514>>,
                        <<1513, 1497, 1502, 1493, 32, 1500, 1489>> >>],
       [variant |-> "danger",
        triggers |-> << <<1505, 1499, 1504, 1492>>,
                        <<1505, 1499, 1504, 1514, 32, 1495, 1497, 1497, 1501>>,
                        <<1495, 1493, 1511, 32, 1489, 1512, 1494, 1500>> >>],
       [variant |-> "info",
        triggers |-> << <<1492, 1506, 1512, 1492>>,
                        <<1495, 1513, 1493, 1489>>,
                        <<1502, 1497, 1491, 1506>> >>] >>

\* TriggerHit that looks for the phrase anywhere in the text.
TriggerHitAnywhere(text, trigger) ==
    Find(text, trigger \o <<COLON>>, 1) # 0 \/ Find(text, trigger \o <<SP>>, 1) # 0

\* One test of _detect_tip_type's inner loop.
TriggerHit(text, trigger) ==
    StartsWith(text, trigger \o <<COLON>>) \/ StartsWith(text, trigger \o <<SP>>)

\* _detect_tip_type: the first variant, in table order, one of whose phrases
\* hits; "none" stands for None.
RECURSIVE DetectFrom(_, _)
DetectFrom(text, v) ==
    IF v > Len(TIP_TRIGGERS) THEN "none"
    ELSE IF \E t \in 1 .. Len(TIP_TRIGGERS[v].triggers) :
                TriggerHit(text, TIP_TRIGGERS[v].triggers[t])
         THEN TIP_TRIGGERS[v].variant
         ELSE DetectFrom(text, v + 1)

DetectTipType(text) == DetectFrom(text, 1)

(***************************************************************************)
(* ContentParser.parse                                                     *)
(*                                                                         *)
(* Section(type, content, items, meta) is a record; meta is the variant    *)
(* ("none" for the empty dict).  A bullet entry is a record: paired is     *)
(* FALSE for a plain str and TRUE for the tuple (text, subs).  Every text  *)
(* taken from a line carries in the field "line" the number of the line it *)
(* came from (position in lines); the code keeps no such field, it is      *)
(* recorded here only so that properties can speak of a text's origin.     *)
(***************************************************************************)
Section(type, content, items, meta, line) ==
    [type |-> type, content |-> content, items |-> items, meta |-> meta, line |-> line]

PlainEntry(text, line) == [text |-> text, line |-> line, paired |-> FALSE, subs |-> <<>>]

SubEntry(text, line) == [text |-> text, line |-> line]

\* (current_bullets[-1], list(current_sub_bullets))
Pair(entry, subs) == [entry EXCEPT !.paired = TRUE, !.subs = subs]

\* _flush_bullets with the guard "if bullets" left out.
FlushBulletsUnguarded(secs, bullets, sub_bullets) ==
    LET n == Len(bullets)
        attached ==
            IF sub_bullets # <<>> /\ bullets # <<>> /\ ~bullets[n].paired
            THEN [bullets EXCEPT ![n] = Pair(bullets[n], sub_bullets)]
            ELSE bullets
    IN  Append(secs, Section("bullet_list", <<>>, attached, "none", 0))

\* _flush_bullets: the sections after the call.
FlushBullets(secs, bullets, sub_bullets) ==
    LET n == Len(bullets)
        attached ==
            IF sub_bullets # <<>> /\ bullets # <<>> /\ ~bullets[n].paired
            THEN [bullets EXCEPT ![n] = Pair(bullets[n], sub_bullets)]
            ELSE bullets
    IN  IF bullets # <<>>
        THEN Append(secs, Section("bullet_list", <<>>, attached, "none", 0))
        ELSE secs

\* The loop's local state.
ParserState(secs, bullets, subs, inlist, flush) ==
    [sections |-> secs, current_bullets |-> bullets, current_sub_bullets |-> subs,
     in_bullet_list |-> inlist, flush |-> flush]

\* CloseRun that flushes without resetting the accumulators and the flag.
CloseRunWithoutReset(st) ==
    IF st.in_bullet_list
    THEN ParserState(FlushBullets(st.sections, st.current_bullets, st.current_sub_bullets),
                     st.current_bullets, st.current_sub_bullets, TRUE,
                     IF st.current_bullets = <<>> THEN "empty" ELSE "emitted")
    ELSE [st EXCEPT !.flush = "none"]

\* "if in_bullet_list: flush, reset both accumulators and the flag".  The field
\* flush records what the call did: "none" (no call), "empty" (called with no
\* top-level bullet, nothing emitted) or "emitted".
CloseRun(st) ==
    IF st.in_bullet_list
    THEN ParserState(FlushBullets(st.sections, st.current_bullets, st.current_sub_bullets),
                     <<>>, <<>>, FALSE,
                     IF st.current_bullets = <<>> THEN "empty" ELSE "emitted")
    ELSE [st EXCEPT !.flush = "none"]

\* The branch of the loop body a line takes (first match wins).
Classify(line) ==
    LET stripped == Strip(line)
    IN  IF stripped = <<>> THEN "blank"
        ELSE IF RE_NUMBERED_HEADER(stripped).ok /\ HasEmoji(stripped) THEN "h3"
        ELSE IF RE_SUB_BULLET(line).ok THEN "sub"
        ELSE IF RE_BULLET(stripped).ok THEN "bullet"
        ELSE IF DetectTipType(stripped) # "none" THEN "tip"
        ELSE "paragraph"

\* One iteration of "for line in lines": the local state after line number n.
StepLine(st, line, n) ==
    LET stripped == Strip(line)
        kind == Classify(line)
        closed == CloseRun(st)
    IN  CASE kind = "blank" -> closed
          [] kind = "h3" ->
                [closed EXCEPT !.sections = Append(@,
                    Section("h3", CleanText(RE_NUMBERED_HEADER(stripped).g), <<>>, "none", n))]
          [] kind = "sub" ->
                [st EXCEPT !.current_sub_bullets =
                               Append(@, SubEntry(CleanText(RE_SUB_BULLET(line).g), n)),
                           !.in_bullet_list = TRUE,
                           !.flush = "none"]
          [] kind = "bullet" ->
                LET k == Len(st.current_bullets)
                    attach == st.current_sub_bullets # <<>> /\ st.current_bullets # <<>>
                    prev == IF attach
                            THEN [st.current_bullets EXCEPT
                                      ![k] = Pair(@, st.current_sub_bullets)]
                            ELSE st.current_bullets
                IN  [st EXCEPT !.current_bullets =
                                   Append(prev, PlainEntry(CleanText(RE_BULLET(stripped).g), n)),
                               !.current_sub_bullets = IF attach THEN <<>> ELSE @,
                               !.in_bullet_list = TRUE,
                               !.flush = "none"]
          [] kind = "tip" ->
                [closed EXCEPT !.sections = Append(@,
                    Section("tip_box", CleanText(stripped), <<>>, DetectTipType(stripped), n))]
          [] OTHER ->
                [closed EXCEPT !.sections = Append(@,
                    Section("paragraph", CleanText(stripped), <<>>, "none", n))]

\* "Flush remaining bullets" after the loop; the returned sections.
FinalFlush(st) ==
    IF st.in_bullet_list
    THEN FlushBullets(st.sections, st.current_bullets, st.current_sub_bullets)
    ELSE st.sections

InitialParserState == ParserState(<<>>, <<>>, <<>>, FALSE, "none")

RECURSIVE ParseFrom(_, _, _)
ParseFrom(st, ls, n) ==
    IF n > Len(ls) THEN FinalFlush(st)
    ELSE ParseFrom(StepLine(st, ls[n], n), ls, n + 1)

\* parse(raw_text) as one call (used by the builder).
Parse(text) == ParseFrom(InitialParserState, SplitLines(Strip(text)), 1)

(***************************************************************************)
(* HTMLBuilder: text literals of builder.py, as code points                *)
(***************************************************************************)
\* <strong>
STRONG_OPEN ==
    <<60, 115, 116, 114, 111, 110, 103, 62>>

\* </strong>
STRONG_CLOSE ==
    <<60, 47, 115, 116, 114, 111, 110, 103, 62>>

\* <a href="tel:
TEL_OPEN ==
    <<60, 97, 32, 104, 114, 101, 102, 61, 34, 116, 101, 108, 58>>

\* ">
TEL_MID ==
    <<34, 62>>

\* </a>
TEL_CLOSE ==
    <<60, 47, 97, 62>>

\* <h3>
H3_OPEN ==
    <<60, 104, 51, 62>>

\* </h3>
H3_CLOSE ==
    <<60, 47, 104, 51, 62>>

\* <p>
P_OPEN ==
    <<60, 112, 62>>

\* </p>
P_CLOSE ==
    <<60, 47, 112, 62>>

\* <ul>\n
UL_OPEN ==
    <<60, 117, 108, 62, 10>>

\* </ul>
UL_CLOSE ==
    <<60, 47, 117, 108, 62>>

\* <li>
LI_OPEN ==
    <<60, 108, 105, 62>>

\* </li>\n
LI_CLOSE ==
    <<60, 47, 108, 105, 62, 10>>

\* \n<ul>\n
NESTED_OPEN ==
    <<10, 60, 117, 108, 62, 10>>

\* </ul>\n</li>\n
NESTED_CLOSE ==
    <<60, 47, 117, 108, 62, 10, 60, 47, 108, 105, 62, 10>>

\* <div class="tip-box 
TIP_OPEN ==
    <<60, 100, 105, 118, 32, 99, 108, 97, 115, 115, 61, 34, 116, 105, 112,
    45, 98, 111, 120, 32>>

\* ">\n
TIP_OPEN_END ==
    <<34, 62, 10>>

\* <div class="tip-label"><span class="tip-icon">
TIP_LABEL_OPEN ==
    <<60, 100, 105, 118, 32, 99, 108, 97, 115, 115, 61, 34, 116, 105, 112,
    45, 108, 97, 98, 101, 108, 34, 62, 60, 115, 112, 97, 110, 32, 99, 108,
    97, 115, 115, 61, 34, 116, 105, 112, 45, 105, 99, 111, 110, 34, 62>>

\* </span> 
TIP_ICON_CLOSE ==
    <<60, 47, 115, 112, 97, 110, 62, 32>>

\* </div>\n
TIP_LABEL_CLOSE ==
    <<60, 47, 100, 105, 118, 62, 10>>

\* </p>\n
TIP_P_CLOSE ==
    <<60, 47, 112, 62, 10>>

\* </div>
TIP_CLOSE ==
    <<60, 47, 100, 105, 118, 62>>

\* \n<hr class='chapter-divider'>\n
CHAPTER_DIVIDER ==
    <<10, 60, 104, 114, 32, 99, 108, 97, 115, 115, 61, 39, 99, 104, 97,
    112, 116, 101, 114, 45, 100, 105, 118, 105, 100, 101, 114, 39, 62,
    10>>

\* "<p>" + the Hebrew notice ("content coming soon...") + "</p>"
PLACEHOLDER_NOTICE ==
    <<60, 112, 62, 1514, 1493, 1499, 1503, 32, 1489, 1511, 1512, 1493,
    1489, 46, 46, 46, 60, 47, 112, 62>>

\* {{CHAPTER_
PLACEHOLDER_HEAD ==
    <<123, 123, 67, 72, 65, 80, 84, 69, 82, 95>>

\* _CONTENT}}
PLACEHOLDER_TAIL ==
    <<95, 67, 79, 78, 84, 69, 78, 84, 125, 125>>

(***************************************************************************)
(* HTMLBuilder: rendering                                                  *)
(***************************************************************************)
\* RE_BOLD_MARKERS.sub(r"<strong>\1</strong>", s) from position p on.  The
\* pattern is \*\*(.+?)\*\* : the lazy group ends at the first "**" that
\* leaves it non-empty, and "." does not match "\n".
RECURSIVE BoldSub(_, _)
BoldSub(s, p) ==
    IF p > Len(s) THEN <<>>
    ELSE LET q == IF p + 1 <= Len(s) /\ s[p] = STAR /\ s[p + 1] = STAR
                  THEN Find(s, <<STAR, STAR>>, p + 3)
                  ELSE 0
             nl == IndexOf(s, NL, p + 2)
         IN  IF q # 0 /\ (nl = 0 \/ nl > q)
             THEN STRONG_OPEN \o SubSeq(s, p + 2, q - 1) \o STRONG_CLOSE \o BoldSub(s, q + 2)
             ELSE <<s[p]>> \o BoldSub(s, p + 1)

\* -?\d{n} tried at position p: the position after it, or 0.
DashDigits(s, p, n) ==
    LET q == IF p <= Len(s) /\ s[p] = DASH THEN p + 1 ELSE p
    IN  IF p # 0 /\ q + n - 1 <= Len(s) /\ (\A i \in q .. q + n - 1 : IsDigit(s[i]))
        THEN q + n
        ELSE 0

\* RE_PHONE = (05[0-9]-?\d{3}-?\d{4}) tried at position p: the position after
\* the match, or 0.
RE_PHONE(s, p) ==
    IF p + 2 <= Len(s) /\ s[p] = ZERO /\ s[p + 1] = FIVE /\ s[p + 2] \in 48 .. 57
    THEN DashDigits(s, DashDigits(s, p + 3, 3), 4)
    ELSE 0

\* RE_PHONE.sub(r'<a href="tel:\1">\1</a>', s) from position p on.
RECURSIVE PhoneSub(_, _)
PhoneSub(s, p) ==
    IF p > Len(s) THEN <<>>
    ELSE LET e == RE_PHONE(s, p)
         IN  IF e = 0 THEN <<s[p]>> \o PhoneSub(s, p + 1)
             ELSE LET n == SubSeq(s, p, e - 1)
                  IN  TEL_OPEN \o n \o TEL_MID \o n \o TEL_CLOSE \o PhoneSub(s, e)

\* _enhance_text: bold first, then phone links.
EnhanceText(text) == PhoneSub(BoldSub(text, 1), 1)

\* TIP_CONFIG
TIP_CONFIG ==
    [pro     |-> [icon |-> <<128161>>,
                  label |-> <<1496, 1497, 1508, 32, 1502, 1511, 1510, 1493, 1506, 1497>>,
                  css |-> <<112, 114, 111>>],
     info    |-> [icon |-> <<8505, 65039>>,
                  label |-> <<1502, 1497, 1491, 1506>>,
                  css |-> <<105, 110, 102, 111>>],
     warning |-> [icon |-> <<9889>>,
                  label |-> <<1488, 1494, 1492, 1512, 1492>>,
                  css |-> <<119, 97, 114, 110, 105, 110, 103>>],
     danger  |-> [icon |-> <<128721>>,
                  label |-> <<1505, 1499, 1504, 1492>>,
                  css |-> <<100, 97, 110, 103, 101, 114>>]]

\* _build_tip_box falling back to the pro variant.
BuildTipBoxProDefault(content, variant) ==
    LET cfg == IF variant \in DOMAIN TIP_CONFIG THEN TIP_CONFIG[variant] ELSE TIP_CONFIG.pro
    IN  TIP_OPEN \o cfg.css \o TIP_OPEN_END
            \o TIP_LABEL_OPEN \o cfg.icon \o TIP_ICON_CLOSE \o cfg.label \o TIP_LABEL_CLOSE
            \o P_OPEN \o EnhanceText(content) \o TIP_P_CLOSE
            \o TIP_CLOSE

\* _build_tip_box
BuildTipBox(content, variant) ==
    LET cfg == IF variant \in DOMAIN TIP_CONFIG THEN TIP_CONFIG[variant] ELSE TIP_CONFIG.info
    IN  TIP_OPEN \o cfg.css \o TIP_OPEN_END
            \o TIP_LABEL_OPEN \o cfg.icon \o TIP_ICON_CLOSE \o cfg.label \o TIP_LABEL_CLOSE
            \o P_OPEN \o EnhanceText(content) \o TIP_P_CLOSE
            \o TIP_CLOSE

\* The inner loop of _build_list over subs, from sub number k on.
RECURSIVE SubItemsHtml(_, _)
SubItemsHtml(subs, k) ==
    IF k > Len(subs) THEN <<>>
    ELSE LI_OPEN \o EnhanceText(subs[k].text) \o LI_CLOSE \o SubItemsHtml(subs, k + 1)

\* The loop of _build_list with the subitems of a paired entry rendered as
\* further top-level items, without a nested list.
RECURSIVE ItemsHtmlFlat(_, _)
ItemsHtmlFlat(items, k) ==
    IF k > Len(items) THEN <<>>
    ELSE LI_OPEN \o EnhanceText(items[k].text) \o LI_CLOSE
             \o (IF items[k].paired THEN SubItemsHtml(items[k].subs, 1) ELSE <<>>)
             \o ItemsHtmlFlat(items, k + 1)

\* The loop of _build_list over items, from item number k on.
RECURSIVE ItemsHtml(_, _)
ItemsHtml(items, k) ==
    IF k > Len(items) THEN <<>>
    ELSE (IF items[k].paired
          THEN LI_OPEN \o EnhanceText(items[k].text) \o NESTED_OPEN
                   \o SubItemsHtml(items[k].subs, 1) \o NESTED_CLOSE
          ELSE LI_OPEN \o EnhanceText(items[k].text) \o LI_CLOSE)
         \o ItemsHtml(items, k + 1)

\* _build_list
BuildList(items) == UL_OPEN \o ItemsHtml(items, 1) \o UL_CLOSE

\* The markup of one section in _sections_to_html; sec.meta.get("variant",
\* "info") gives "info" when the meta holds no variant.
SectionHtml(sec) ==
    CASE sec.type = "h3" -> H3_OPEN \o EnhanceText(sec.content) \o H3_CLOSE
      [] sec.type = "paragraph" -> P_OPEN \o EnhanceText(sec.content) \o P_CLOSE
      [] sec.type = "bullet_list" -> BuildList(sec.items)
      [] sec.type = "tip_box" ->
            BuildTipBox(sec.content, IF sec.meta = "none" THEN "info" ELSE sec.meta)

\* _sections_to_html
SectionsToHtml(secs) == Join(<<NL>>, [k \in 1 .. Len(secs) |-> SectionHtml(secs[k])])

(***************************************************************************)
(* HTMLBuilder: chapter resolution and template substitution               *)
(*                                                                         *)
(* A file is [exists |-> BOOLEAN, text |-> its content].  A chapter of the *)
(* configuration is [id |-> str(ch["id"]), questions |-> ch["questions"]]. *)
(***************************************************************************)
Missing == [exists |-> FALSE, text |-> <<>>]
File(text) == [exists |-> TRUE, text |-> text]

\* f"{{{{CHAPTER_{ch_id}_CONTENT}}}}"
Placeholder(id) == PLACEHOLDER_HEAD \o id \o PLACEHOLDER_TAIL

\* RenderedParts with an empty part appended for a missing file.
RECURSIVE RenderedPartsKeepingMissing(_, _, _)
RenderedPartsKeepingMissing(q_ids, raw, k) ==
    IF k > Len(q_ids) THEN <<>>
    ELSE (IF raw[q_ids[k]].exists
          THEN <<SectionsToHtml(Parse(raw[q_ids[k]].text))>>
          ELSE << <<>> >>)
         \o RenderedPartsKeepingMissing(q_ids, raw, k + 1)

\* The loop of _generate_from_raw: the rendered markup of the fragments whose
\* raw file exists, in q_ids order, from question number k on.
RECURSIVE RenderedParts(_, _, _)
RenderedParts(q_ids, raw, k) ==
    IF k > Len(q_ids) THEN <<>>
    ELSE (IF raw[q_ids[k]].exists
          THEN <<SectionsToHtml(Parse(raw[q_ids[k]].text))>>
          ELSE <<>>)
         \o RenderedParts(q_ids, raw, k + 1)

\* _generate_from_raw with the notice left out of the last line.
GenerateFromRawNoNotice(ch, raw) == Join(CHAPTER_DIVIDER, RenderedParts(ch.questions, raw, 1))

\* _generate_from_raw
GenerateFromRaw(ch, raw) ==
    LET parts == RenderedParts(ch.questions, raw, 1)
    IN  IF parts # <<>> THEN Join(CHAPTER_DIVIDER, parts) ELSE PLACEHOLDER_NOTICE

\* The content build resolves for a chapter: the override file when it
\* exists, else the markup generated from the raw fragments.
ChapterContent(ch, overrides, raw) ==
    IF overrides[ch.id].exists THEN overrides[ch.id].text ELSE GenerateFromRaw(ch, raw)

\* re.findall(r"\{\{CHAPTER_\d+_CONTENT\}\}", s) from position p on.
RECURSIVE RemainingPlaceholders(_, _)
RemainingPlaceholders(s, p) ==
    IF p > Len(s) THEN <<>>
    ELSE LET d == RunLen(s, p + Len(PLACEHOLDER_HEAD), Digits)
             e == p + Len(PLACEHOLDER_HEAD) + d
         IN  IF StartsWith(From(s, p), PLACEHOLDER_HEAD) /\ d >= 1
                    /\ StartsWith(From(s, e), PLACEHOLDER_TAIL)
             THEN <<SubSeq(s, p, e + Len(PLACEHOLDER_TAIL) - 1)>>
                      \o RemainingPlaceholders(s, e + Len(PLACEHOLDER_TAIL))
             ELSE RemainingPlaceholders(s, p + 1)

\* The chapter loop of build applied to text s: the placeholders of chs[k],
\* chs[k+1], ... replaced one chapter after the other, each by its content.
RECURSIVE Substitute(_, _, _, _, _)
Substitute(s, chs, k, overrides, raw) ==
    IF k > Len(chs) THEN s
    ELSE Substitute(Replace(s, Placeholder(chs[k].id), ChapterContent(chs[k], overrides, raw)),
                    chs, k + 1, overrides, raw)

(***************************************************************************)
(* State                                                                   *)
(***************************************************************************)
VARIABLES
    \* ContentParser.parse: its argument, its locals and its position
    raw_text,               \* the argument
    lines,                  \* raw_text.strip().split("\n")
    line_no,                \* number of the line the for loop takes next
    sections,               \* the result list
    current_bullets,
    current_sub_bullets,
    in_bullet_list,
    flush,                  \* what the last step's _flush_bullets call did
    ppc,                    \* "start", "loop" or "done" (returned)
    \* HTMLBuilder and its files
    template,               \* self.template
    chapters,               \* self.config["chapters"]
    chapter_files,          \* templates/chapters/ch<id>.html, by chapter id
    raw_files,              \* raw_dir/<q_id>.txt, by question id
    html,                   \* build's local html
    ch_no,                  \* number of the chapter the for loop takes next
    content,                \* build's local content (of the last chapter taken)
    output,                 \* the file at output_path
    builds,                 \* per finished build call: what it wrote, returned and warned
    bpc,                    \* "idle" (not in build) or "chapters" (in the loop)
    \* HTMLBuilder._sections_to_html called on its own
    render_sections,        \* the argument
    rendered_parts,         \* the local list "parts" of rendered sections
    sec_no,                 \* number of the section the for loop takes next
    markup,                 \* the string returned
    rpc,                    \* "idle" (not called), "loop" or "done" (returned)
    \* run_pipeline.main, NotebookExtractor.extract_all, GitHubDeployer.deploy
    args_phases,            \* args.phases, as named on the command line
    dry_run,                \* args.dry_run
    questions,              \* config["questions"], by id
    max_budget,             \* config["query"]["max_budget"]
    retries,                \* config["query"]["retry_attempts"]
    phases,                 \* main's local phases
    success,                \* main's local success
    raw_dir,                \* the directory data/raw exists
    template_file,          \* the file templates/base.html
    git_dir,                \* the directory .git exists
    q_no,                   \* number of the question extract_all takes next
    results,                \* extract_all's results, in insertion order
    queries,                \* the NotebookLM queries issued, by question id
    processed,              \* per iteration of extract_all's loop: the question's id,
                            \* what its first query gave, the number of its queries,
                            \* whether its answer file was written
    phase_log,              \* per run_<phase> call of main: the phase and its result,
                            \* "running" until it returns
    commands,               \* the git and gh commands run by deploy
    created,                \* the files and directories created by the run
    exit_status,            \* the process's exit status, -1 while it runs
    plc                     \* where main is

parser_vars ==
    <<raw_text, lines, line_no, sections, current_bullets, current_sub_bullets,
      in_bullet_list, flush, ppc>>

builder_vars ==
    <<template, chapters, chapter_files, raw_files, html, ch_no, content, output,
      builds, bpc>>

render_vars == <<render_sections, rendered_parts, sec_no, markup, rpc>>

\* The command line and the configuration, which the run never changes.
pipeline_args == <<args_phases, dry_run, questions, max_budget, retries>>

pipeline_vars ==
    <<pipeline_args, phases, success, raw_dir, template_file, git_dir, q_no, results,
      queries, processed, phase_log, commands, created, exit_status, plc>>

vars == <<parser_vars, builder_vars, render_vars, pipeline_vars>>

\* What an action of the parser, of build, of the renderer leaves alone.
non_parser_vars == <<builder_vars, render_vars, pipeline_vars>>
non_builder_vars == <<parser_vars, render_vars, pipeline_vars>>
non_render_vars == <<parser_vars, builder_vars, pipeline_vars>>

(***************************************************************************)
(* Bounds and inputs                                                       *)
(***************************************************************************)
MaxLines == 4       \* lines of a parsed text built from the line vocabulary
MaxChars == 4       \* characters of a parsed one-line text built from characters
MaxPieces == 2      \* pieces of a template
MaxChapters == 2    \* chapters of a configuration
MaxBuilds == 2      \* build calls on one builder
MaxSections == 2    \* sections of a list given to _sections_to_html
MaxItems == 2       \* entries of a BulletList given to _sections_to_html
MaxQuestions == 2   \* questions of the pipeline's configuration

\* One line of each kind the parser tells apart.
LINE_BULLET == <<8226, 32, 65>>    \* "U+2022 A"
LINE_SUB == <<32, 32, 9702, 32, 65, 49>>    \* "  U+25E6 A1"
LINE_PARA == <<80>>    \* "P"
LINE_HEAD == <<49, 46, 32, 73, 32, 127968>>    \* "1. I U+1F3E0"
LINE_TIP == <<1496, 1497, 1508, 58, 32, 120>>    \* the first pro trigger phrase + ": x"

Vocabulary == {<<>>, LINE_BULLET, LINE_SUB, LINE_PARA, LINE_HEAD, LINE_TIP}

\* The example of the specification: "U+2022 A\n  U+25E6 A1\n  U+25E6 A2\nU+2022 B\n"
EXAMPLE_NESTED ==
    <<8226, 32, 65, 10, 32, 32, 9702, 32, 65, 49, 10, 32, 32, 9702, 32, 65, 50, 10, 8226, 32, 66, 10>>

\* "1", ".", " ", "I", U+1F3E0 (an emoji) and U+1F000 (the threshold itself)
HeadingAlphabet == {49, 46, 32, 73, 127968, 126976}

SeqsUpTo(S, n) == UNION {[1 .. k -> S] : k \in 0 .. n}

\* Lines of plain prose: "P", " Q 1." (indented, ending in a footnote marker),
\* "1. I" (numbered, no emoji) and "x " + the first pro trigger phrase + ": y"
\* (a trigger phrase that does not open the line).
LINE_QUOTE == <<32, 81, 32, 49, 46>>
LINE_NUMBERED == <<49, 46, 32, 73>>
LINE_LATE_TRIGGER == <<120, 32, 1496, 1497, 1508, 58, 32, 121>>

ProseVocabulary == {LINE_PARA, LINE_QUOTE, LINE_NUMBERED, LINE_LATE_TRIGGER}

\* Every phrase of TIP_TRIGGERS.
TriggerPhrases ==
    UNION {{TIP_TRIGGERS[v].triggers[t] : t \in DOMAIN TIP_TRIGGERS[v].triggers} :
              v \in DOMAIN TIP_TRIGGERS}

\* "<pro phrase>: <info phrase>: x" and "<info phrase>: <pro phrase>: x"
LINE_PRO_THEN_INFO ==
    TIP_TRIGGERS[1].triggers[1] \o <<COLON, SP>> \o TIP_TRIGGERS[4].triggers[1] \o <<COLON, SP, 120>>
LINE_INFO_THEN_PRO ==
    TIP_TRIGGERS[4].triggers[1] \o <<COLON, SP>> \o TIP_TRIGGERS[1].triggers[1] \o <<COLON, SP, 120>>

\* One-line texts around the trigger phrases: each phrase followed by ":",
\* by a space or by a letter, each phrase later in the line, and two phrases
\* of different variants in one line.
TipInputs ==
    {p \o <<c, 120>> : p \in TriggerPhrases, c \in {COLON, SP, 120}}
        \cup {<<120, SP>> \o p \o <<COLON, SP, 120>> : p \in TriggerPhrases}
        \cup {LINE_PRO_THEN_INFO, LINE_INFO_THEN_PRO}

ParserInputs ==
    {Join(<<NL>>, ls) : ls \in SeqsUpTo(Vocabulary, MaxLines)}
        \cup SeqsUpTo(HeadingAlphabet, MaxChars)
        \cup {EXAMPLE_NESTED}
        \cup {Join(<<NL>>, ls) : ls \in SeqsUpTo(ProseVocabulary, MaxLines)}
        \cup TipInputs

\* Chapter ids "1" and "2" and their questions.  The template may also hold
\* a token with the id "a", which is in no configuration (as is "1" or "2"
\* when the configuration leaves that chapter out).
ChapterIds == {<<49>>, <<50>>}
QuestionIds == {"q1", "q2", "q3"}
Chapter(id) == [id |-> id, questions |-> IF id = <<49>> THEN <<"q1", "q2">> ELSE <<"q3">>]
TokenIds == ChapterIds \cup {<<97>>}

Configurations == {[k \in DOMAIN ids |-> Chapter(ids[k])] : ids \in SeqsUpTo(ChapterIds, MaxChapters)}

RECURSIVE Concat(_)
Concat(ss) == IF ss = <<>> THEN <<>> ELSE Head(ss) \o Concat(Tail(ss))

\* Templates: up to MaxPieces pieces, each the text "X" or a placeholder token.
TemplatePieces == {<<88>>} \cup {Placeholder(id) : id \in TokenIds}
Templates == {Concat(ps) : ps \in SeqsUpTo(TemplatePieces, MaxPieces)}

\* Override files: chapter 1 has none, "O", or "O" followed by chapter 2's
\* placeholder token; chapter 2 has none or chapter 1's placeholder token.
OverrideStores ==
    {[id \in ChapterIds |-> IF id = <<49>> THEN f1 ELSE f2] :
        f1 \in {Missing, File(<<79>>), File(<<79>> \o Placeholder(<<50>>))},
        f2 \in {Missing, File(Placeholder(<<49>>))}}

\* A line that is a phone number: "0521234567"
LINE_PHONE == <<48, 53, 50, 49, 50, 51, 52, 53, 54, 55>>

\* Raw files: q1 is missing, empty or "P"; q2 is missing, "P" or the phone
\* number; q3 holds a blank line, " \n".
RawStores ==
    {[q \in QuestionIds |-> CASE q = "q1" -> r1 [] q = "q2" -> r2 [] OTHER -> File(<<SP, NL>>)] :
        r1 \in {Missing, File(<<>>), File(LINE_PARA)},
        r2 \in {Missing, File(LINE_PARA), File(LINE_PHONE)}}

\* Bullet entries "A", "B", ("B", ["C", "D"]) and ("A", ["C"]).
ENTRY_A == PlainEntry(<<65>>, 0)
ENTRY_B == PlainEntry(<<66>>, 0)
ENTRY_B_CD == Pair(ENTRY_B, <<SubEntry(<<67>>, 0), SubEntry(<<68>>, 0)>>)
ENTRY_A_C == Pair(ENTRY_A, <<SubEntry(<<67>>, 0)>>)

Entries == {ENTRY_A, ENTRY_B, ENTRY_B_CD, ENTRY_A_C}

\* BulletList sections of one to MaxItems entries.
ListSections ==
    {Section("bullet_list", <<>>, items, "none", 0) :
        items \in SeqsUpTo(Entries, MaxItems) \ {<<>>}}

\* TipBox sections with the text "x": meta without variant ("none"), with
\* each configured variant, and with the variant "tip", which TIP_CONFIG
\* does not have.
TipSections ==
    {Section("tip_box", <<120>>, <<>>, m, 0) :
        m \in {"none", "pro", "info", "warning", "danger", "tip"}}

\* One section of each type, and one of a type _sections_to_html has no
\* branch for.
SimpleSections ==
    {Section("h3", <<73>>, <<>>, "none", 0),
     Section("paragraph", <<80>>, <<>>, "none", 0),
     Section("tip_box", <<120>>, <<>>, "none", 0),
     Section("bullet_list", <<>>, <<ENTRY_A, ENTRY_B_CD>>, "none", 0),
     Section("numbered_list", <<78>>, <<>>, "none", 0)}

RenderInputs ==
    {<<s>> : s \in ListSections \cup TipSections}
        \cup SeqsUpTo(SimpleSections, MaxSections)

\* The phases, in the order main runs them, and the command lines: every
\* sequence of distinct phase names, the empty one standing for "all".
ALL_PHASES == <<"extract", "build", "deploy">>
PhaseNames == {ALL_PHASES[k] : k \in DOMAIN ALL_PHASES}

PhaseArgs ==
    {s \in SeqsUpTo(PhaseNames, Len(ALL_PHASES)) :
        \A a, b \in DOMAIN s : s[a] = s[b] => a = b}

\* The configured questions, by id: up to MaxQuestions entries, each q1 or
\* q2; nothing in the configuration keeps two entries from having one id.
QuestionLists == SeqsUpTo({"q1", "q2"}, MaxQuestions)

\* Values of retry_attempts.
RetryValues == {0, 2}

\* What one NotebookLM query gives: None, the empty string, or an answer.
QueryOutcomes == {"none", "empty", "answer"}

\* The cleaned answer text written for a question: "P"
ANSWER_TEXT == LINE_PARA

(***************************************************************************)
(* Initial states                                                          *)
(***************************************************************************)
ParserIdle ==
    /\ raw_text = <<>>
    /\ lines = <<>>
    /\ line_no = 1
    /\ sections = <<>>
    /\ current_bullets = <<>>
    /\ current_sub_bullets = <<>>
    /\ in_bullet_list = FALSE
    /\ flush = "none"
    /\ ppc = "done"

BuilderFresh ==
    /\ html = <<>>
    /\ ch_no = 1
    /\ content = <<>>
    /\ output = Missing
    /\ builds = <<>>
    /\ bpc = "idle"

RenderIdle ==
    /\ render_sections = <<>>
    /\ rendered_parts = <<>>
    /\ sec_no = 1
    /\ markup = <<>>
    /\ rpc = "idle"

\* No pipeline run.
PipelineIdle ==
    /\ args_phases = <<>>
    /\ dry_run = FALSE
    /\ questions = <<>>
    /\ max_budget = 0
    /\ retries = 0
    /\ phases = <<>>
    /\ success = TRUE
    /\ raw_dir = FALSE
    /\ template_file = Missing
    /\ git_dir = FALSE
    /\ q_no = 1
    /\ results = <<>>
    /\ queries = <<>>
    /\ processed = <<>>
    /\ phase_log = <<>>
    /\ commands = <<>>
    /\ created = {}
    /\ exit_status = -1
    /\ plc = "idle"

\* No builder constructed: no template, no configuration, no files.
NoBuilder ==
    /\ template = <<>>
    /\ chapters = <<>>
    /\ chapter_files = [id \in ChapterIds |-> Missing]
    /\ raw_files = [q \in QuestionIds |-> Missing]
    /\ BuilderFresh

\* A call parse(raw_text) about to start; no builder at work.
Init ==
    /\ raw_text \in ParserInputs
    /\ lines = <<>>
    /\ line_no = 1
    /\ sections = <<>>
    /\ current_bullets = <<>>
    /\ current_sub_bullets = <<>>
    /\ in_bullet_list = FALSE
    /\ flush = "none"
    /\ ppc = "start"
    /\ template = <<>>
    /\ chapters = <<>>
    /\ chapter_files = [id \in ChapterIds |-> Missing]
    /\ raw_files = [q \in QuestionIds |-> Missing]
    /\ BuilderFresh
    /\ RenderIdle
    /\ PipelineIdle

\* A builder just constructed (__init__ has read the template) over some files.
InitBuild ==
    /\ ParserIdle
    /\ template \in Templates
    /\ chapters \in Configurations
    /\ chapter_files \in OverrideStores
    /\ raw_files \in RawStores
    /\ BuilderFresh
    /\ RenderIdle
    /\ PipelineIdle

\* A call _sections_to_html(render_sections) at the head of its loop.
InitRender ==
    /\ ParserIdle
    /\ NoBuilder
    /\ render_sections \in RenderInputs
    /\ rendered_parts = <<>>
    /\ sec_no = 1
    /\ markup = <<>>
    /\ rpc = "loop"
    /\ PipelineIdle

\* main has parsed the command line and loaded the configuration; the
\* directory tree holds or lacks data/raw (with q1.txt or without),
\* templates/base.html, dist/index.html and .git.
InitPipeline ==
    /\ ParserIdle
    /\ RenderIdle
    /\ template = <<>>
    /\ chapters = <<Chapter(<<49>>)>>
    /\ chapter_files = [id \in ChapterIds |-> Missing]
    /\ raw_dir \in BOOLEAN
    /\ raw_files \in {[q \in QuestionIds |-> IF q = "q1" THEN f ELSE Missing] :
                          f \in IF raw_dir THEN {Missing, File(LINE_PARA)} ELSE {Missing}}
    /\ html = <<>>
    /\ ch_no = 1
    /\ content = <<>>
    /\ output \in {Missing, File(<<88>>)}
    /\ builds = <<>>
    /\ bpc = "idle"
    /\ args_phases \in PhaseArgs
    /\ dry_run \in BOOLEAN
    /\ questions \in QuestionLists
    /\ max_budget \in {1, MaxQuestions}
    /\ retries \in RetryValues
    /\ phases = <<>>
    /\ success = TRUE
    /\ template_file \in {Missing, File(Placeholder(<<49>>))}
    /\ git_dir \in BOOLEAN
    /\ q_no = 1
    /\ results = <<>>
    /\ queries = <<>>
    /\ processed = <<>>
    /\ phase_log = <<>>
    /\ commands = <<>>
    /\ created = {}
    /\ exit_status = -1
    /\ plc = "start"

(***************************************************************************)
(* ContentParser.parse, one action per branch of the loop body             *)
(***************************************************************************)
\* lines = raw_text.strip().split("\n") and the initial locals
ParseStart ==
    /\ ppc = "start"
    /\ lines' = SplitLines(Strip(raw_text))
    /\ ppc' = "loop"
    /\ UNCHANGED <<raw_text, line_no, sections, current_bullets, current_sub_bullets,
                   in_bullet_list, flush>>
    /\ UNCHANGED non_parser_vars

Locals == ParserState(sections, current_bullets, current_sub_bullets, in_bullet_list, flush)

\* The for loop is at a line that takes the branch "kind" of the loop body.
AtLine(kind) ==
    /\ ppc = "loop"
    /\ line_no <= Len(lines)
    /\ Classify(lines[line_no]) = kind

\* The loop body on that line.
TakeLine ==
    /\ LET st == StepLine(Locals, lines[line_no], line_no)
       IN  /\ sections' = st.sections
           /\ current_bullets' = st.current_bullets
           /\ current_sub_bullets' = st.current_sub_bullets
           /\ in_bullet_list' = st.in_bullet_list
           /\ flush' = st.flush
    /\ line_no' = line_no + 1
    /\ UNCHANGED <<raw_text, lines, ppc>>
    /\ UNCHANGED non_parser_vars

ParseBlank ==
    /\ AtLine("blank")
    /\ TakeLine

ParseHeading ==
    /\ AtLine("h3")
    /\ TakeLine

ParseSubBullet ==
    /\ AtLine("sub")
    /\ TakeLine

ParseBullet ==
    /\ AtLine("bullet")
    /\ TakeLine

ParseTip ==
    /\ AtLine("tip")
    /\ TakeLine

\* ParseParagraph that emits nothing for a line whose predecessor already
\* gave a Paragraph.
ParseParagraphMerging ==
    /\ AtLine("paragraph")
    /\ LET st == StepLine(Locals, lines[line_no], line_no)
           merged == sections # <<>> /\ sections[Len(sections)].type = "paragraph"
       IN  /\ sections' = IF merged THEN sections ELSE st.sections
           /\ current_bullets' = st.current_bullets
           /\ current_sub_bullets' = st.current_sub_bullets
           /\ in_bullet_list' = st.in_bullet_list
           /\ flush' = st.flush
    /\ line_no' = line_no + 1
    /\ UNCHANGED <<raw_text, lines, ppc>>
    /\ UNCHANGED non_parser_vars

ParseParagraph ==
    /\ AtLine("paragraph")
    /\ TakeLine

\* After the loop: flush the open run and return sections.
ParseReturn ==
    /\ ppc = "loop"
    /\ line_no > Len(lines)
    /\ sections' = FinalFlush(Locals)
    /\ flush' = IF ~in_bullet_list THEN "none"
                ELSE IF current_bullets = <<>> THEN "empty" ELSE "emitted"
    /\ ppc' = "done"
    /\ UNCHANGED <<raw_text, lines, line_no, current_bullets, current_sub_bullets,
                   in_bullet_list>>
    /\ UNCHANGED non_parser_vars

(***************************************************************************)
(* HTMLBuilder.build                                                       *)
(***************************************************************************)
\* html = self.template
BuildStart ==
    /\ bpc = "idle"
    /\ Len(builds) < MaxBuilds
    /\ html' = template
    /\ ch_no' = 1
    /\ bpc' = "chapters"
    /\ UNCHANGED <<template, chapters, chapter_files, raw_files, content, output, builds>>
    /\ UNCHANGED non_builder_vars

\* The for loop is at a chapter whose override file exists (rich) or not.
AtChapter(rich) ==
    /\ bpc = "chapters"
    /\ ch_no <= Len(chapters)
    /\ chapter_files[chapters[ch_no].id].exists = rich

\* One iteration of "for ch in chapters": resolve the content, replace the
\* chapter's placeholder in html.
TakeChapter ==
    /\ content' = ChapterContent(chapters[ch_no], chapter_files, raw_files)
    /\ html' = Replace(html, Placeholder(chapters[ch_no].id), content')
    /\ ch_no' = ch_no + 1
    /\ UNCHANGED <<template, chapters, chapter_files, raw_files, output, builds, bpc>>
    /\ UNCHANGED non_builder_vars

\* Priority 1: the pre-built chapter file
BuildChapterRich ==
    /\ AtChapter(TRUE)
    /\ TakeChapter

\* Priority 2: generated from the raw fragments
BuildChapterFallback ==
    /\ AtChapter(FALSE)
    /\ TakeChapter

\* BuildFinish with the substituted text kept as the builder's template.
BuildFinishKeepingHtml ==
    /\ bpc = "chapters"
    /\ ch_no > Len(chapters)
    /\ output' = File(html)
    /\ builds' = Append(builds, [written |-> html,
                                 remaining |-> RemainingPlaceholders(html, 1),
                                 returned |-> Len(html)])
    /\ bpc' = "idle"
    /\ template' = html
    /\ UNCHANGED <<chapters, chapter_files, raw_files, html, ch_no, content>>
    /\ UNCHANGED non_builder_vars

\* After the loop: write html to output_path, scan it for unfilled
\* placeholders (the warning is printed when remaining is not empty), return
\* len(html).
BuildFinish ==
    /\ bpc = "chapters"
    /\ ch_no > Len(chapters)
    /\ output' = File(html)
    /\ builds' = Append(builds, [written |-> html,
                                 remaining |-> RemainingPlaceholders(html, 1),
                                 returned |-> Len(html)])
    /\ bpc' = "idle"
    /\ UNCHANGED <<template, chapters, chapter_files, raw_files, html, ch_no, content>>
    /\ UNCHANGED non_builder_vars

(***************************************************************************)
(* HTMLBuilder._sections_to_html, one action per branch of the loop body   *)
(***************************************************************************)
RenderedTypes == {"h3", "paragraph", "bullet_list", "tip_box"}

\* The for loop is at a section of one of the given types.
AtSection(types) ==
    /\ rpc = "loop"
    /\ sec_no <= Len(render_sections)
    /\ render_sections[sec_no].type \in types

\* parts.append(<the section's markup>)
TakeSection ==
    /\ rendered_parts' = Append(rendered_parts, SectionHtml(render_sections[sec_no]))
    /\ sec_no' = sec_no + 1
    /\ UNCHANGED <<render_sections, markup, rpc>>
    /\ UNCHANGED non_render_vars

RenderHeading ==
    /\ AtSection({"h3"})
    /\ TakeSection

RenderParagraph ==
    /\ AtSection({"paragraph"})
    /\ TakeSection

RenderBulletList ==
    /\ AtSection({"bullet_list"})
    /\ TakeSection

RenderTipBox ==
    /\ AtSection({"tip_box"})
    /\ TakeSection

\* A section of any other type: no branch of the if chain, nothing appended.
RenderOther ==
    /\ rpc = "loop"
    /\ sec_no <= Len(render_sections)
    /\ render_sections[sec_no].type \notin RenderedTypes
    /\ sec_no' = sec_no + 1
    /\ UNCHANGED <<render_sections, rendered_parts, markup, rpc>>
    /\ UNCHANGED non_render_vars

\* return "\n".join(parts)
RenderReturn ==
    /\ rpc = "loop"
    /\ sec_no > Len(render_sections)
    /\ markup' = Join(<<NL>>, rendered_parts)
    /\ rpc' = "done"
    /\ UNCHANGED <<render_sections, rendered_parts, sec_no>>
    /\ UNCHANGED non_render_vars

(***************************************************************************)
(* run_pipeline.main with run_extract, NotebookExtractor.extract_all and   *)
(* run_build                                                               *)
(***************************************************************************)
\* The builder's variables but raw_files and those build assigns.
builder_config == <<chapters, chapter_files>>
builder_locals == <<template, html, ch_no, content, output, builds, bpc>>

\* results[q_id] = record, on a dict kept as the sequence of its values in
\* insertion order: the record of a key already there is replaced in place.
SetItem(dict, key, record) ==
    IF \E k \in DOMAIN dict : dict[k].id = key
    THEN [k \in DOMAIN dict |-> IF dict[k].id = key THEN record ELSE dict[k]]
    ELSE Append(dict, record)

\* main calls run_<name>, which returns at once with the result or is left
\* running.
Called(name, result) == phase_log' = Append(phase_log, [phase |-> name, result |-> result])

\* The call of main that is running goes on or returns.
Returns(result) == phase_log' = [phase_log EXCEPT ![Len(phase_log)].result = result]

\* "<name>" in phases
Selected(name) == \E k \in DOMAIN phases : phases[k] = name

\* phases = args.phases if args.phases else [all]; success = True
PipelineStart ==
    /\ plc = "start"
    /\ phases' = IF args_phases # <<>> THEN args_phases ELSE ALL_PHASES
    /\ success' = TRUE
    /\ plc' = "extract"
    /\ UNCHANGED <<pipeline_args, raw_dir, template_file, git_dir, q_no, results, queries,
                   processed, phase_log, commands, created, exit_status>>
    /\ UNCHANGED <<parser_vars, builder_vars, render_vars>>

\* if "extract" in phases: not taken
ExtractSkipped ==
    /\ plc = "extract"
    /\ ~Selected("extract")
    /\ plc' = "build"
    /\ UNCHANGED <<pipeline_args, phases, success, raw_dir, template_file, git_dir, q_no,
                   results, queries, processed, phase_log, commands, created, exit_status>>
    /\ UNCHANGED <<parser_vars, builder_vars, render_vars>>

\* run_extract: more questions than the budget, return False
RunExtractOverBudget ==
    /\ plc = "extract"
    /\ Selected("extract")
    /\ Len(questions) > max_budget
    /\ success' = FALSE
    /\ Called("extract", "failed")
    /\ plc' = "build"
    /\ UNCHANGED <<pipeline_args, phases, raw_dir, template_file, git_dir, q_no, results,
                   queries, processed, commands, created, exit_status>>
    /\ UNCHANGED <<parser_vars, builder_vars, render_vars>>

\* raw_dir.mkdir(parents=True, exist_ok=True)
MakeRawDir ==
    /\ raw_dir' = TRUE
    /\ created' = IF raw_dir THEN created ELSE created \cup {"data/raw"}

\* run_extract with dry_run: the directory is made, the plan printed, True
\* returned
RunExtractDryRun ==
    /\ plc = "extract"
    /\ Selected("extract")
    /\ Len(questions) <= max_budget
    /\ dry_run
    /\ MakeRawDir
    /\ Called("extract", "ok")
    /\ plc' = "build"
    /\ UNCHANGED <<pipeline_args, phases, success, template_file, git_dir, q_no, results,
                   queries, processed, commands, exit_status>>
    /\ UNCHANGED <<parser_vars, builder_vars, render_vars>>

\* run_extract without dry_run, up to the head of extract_all's loop
RunExtractStart ==
    /\ plc = "extract"
    /\ Selected("extract")
    /\ Len(questions) <= max_budget
    /\ ~dry_run
    /\ MakeRawDir
    /\ Called("extract", "running")
    /\ q_no' = 1
    /\ results' = <<>>
    /\ plc' = "extract_all"
    /\ UNCHANGED <<pipeline_args, phases, success, template_file, git_dir, queries, processed,
                   commands, exit_status>>
    /\ UNCHANGED <<parser_vars, builder_vars, render_vars>>

\* One iteration of extract_all's loop: the query, the retry when it gave
\* None and retries > 0, the answer file written when the answer is not
\* empty, the result recorded.
ExtractQuestion ==
    /\ plc = "extract_all"
    /\ q_no <= Len(questions)
    /\ \E first, second \in QueryOutcomes :
           LET q == questions[q_no]
               retried == first = "none" /\ retries > 0
               answer == IF retried THEN second ELSE first
               saved == answer = "answer"
           IN  /\ queries' = queries \o (IF retried THEN <<q, q>> ELSE <<q>>)
               /\ raw_files' = IF saved THEN [raw_files EXCEPT ![q] = File(ANSWER_TEXT)]
                                ELSE raw_files
               /\ created' = IF saved /\ ~raw_files[q].exists THEN created \cup {q}
                              ELSE created
               /\ results' = SetItem(results, q, [id |-> q, success |-> saved])
               /\ processed' = Append(processed, [id |-> q, first |-> first,
                                                   queries |-> IF retried THEN 2 ELSE 1,
                                                   written |-> saved])
    /\ q_no' = q_no + 1
    /\ UNCHANGED <<pipeline_args, phases, success, raw_dir, template_file, git_dir,
                   commands, phase_log, exit_status, plc>>
    /\ UNCHANGED <<parser_vars, builder_config, builder_locals, render_vars>>

\* extract_all returns; run_extract returns failed == 0
RunExtractReturn ==
    /\ plc = "extract_all"
    /\ q_no > Len(questions)
    /\ success' = IF \E k \in DOMAIN results : ~results[k].success THEN FALSE ELSE success
    /\ Returns(IF success' THEN "ok" ELSE "failed")
    /\ plc' = "build"
    /\ UNCHANGED <<pipeline_args, phases, raw_dir, template_file, git_dir, q_no, results,
                   queries, processed, commands, created, exit_status>>
    /\ UNCHANGED <<parser_vars, builder_vars, render_vars>>

\* if success and "build" in phases: not taken
BuildSkipped ==
    /\ plc = "build"
    /\ ~(success /\ Selected("build"))
    /\ plc' = "deploy"
    /\ UNCHANGED <<pipeline_args, phases, success, raw_dir, template_file, git_dir, q_no,
                   results, queries, processed, phase_log, commands, created, exit_status>>
    /\ UNCHANGED <<parser_vars, builder_vars, render_vars>>

\* run_build: the template is not there, return False
RunBuildNoTemplate ==
    /\ plc = "build"
    /\ success /\ Selected("build")
    /\ ~template_file.exists
    /\ success' = FALSE
    /\ Called("build", "failed")
    /\ plc' = "deploy"
    /\ UNCHANGED <<pipeline_args, phases, raw_dir, template_file, git_dir, q_no, results,
                   queries, processed, commands, created, exit_status>>
    /\ UNCHANGED <<parser_vars, builder_vars, render_vars>>

\* list(raw_dir.glob("q*.txt"))
HasRawData == \E q \in QuestionIds : raw_files[q].exists

\* run_build: no raw file, return False
RunBuildNoRawData ==
    /\ plc = "build"
    /\ success /\ Selected("build")
    /\ template_file.exists
    /\ ~HasRawData
    /\ success' = FALSE
    /\ Called("build", "failed")
    /\ plc' = "deploy"
    /\ UNCHANGED <<pipeline_args, phases, raw_dir, template_file, git_dir, q_no, results,
                   queries, processed, commands, created, exit_status>>
    /\ UNCHANGED <<parser_vars, builder_vars, render_vars>>

\* run_build with dry_run: the plan printed, True returned
RunBuildDryRun ==
    /\ plc = "build"
    /\ success /\ Selected("build")
    /\ template_file.exists
    /\ HasRawData
    /\ dry_run
    /\ Called("build", "ok")
    /\ plc' = "deploy"
    /\ UNCHANGED <<pipeline_args, phases, success, raw_dir, template_file, git_dir, q_no,
                   results, queries, processed, commands, created, exit_status>>
    /\ UNCHANGED <<parser_vars, builder_vars, render_vars>>

\* run_build without dry_run: HTMLBuilder(template_path, config) and its
\* build(raw_dir, output_path), which writes dist/index.html; True returned
RunBuild ==
    /\ plc = "build"
    /\ success /\ Selected("build")
    /\ template_file.exists
    /\ HasRawData
    /\ ~dry_run
    /\ Called("build", "ok")
    /\ template' = template_file.text
    /\ html' = Substitute(template', chapters, 1, chapter_files, raw_files)
    /\ ch_no' = Len(chapters) + 1
    /\ content' = IF chapters = <<>> THEN content
                   ELSE ChapterContent(chapters[Len(chapters)], chapter_files, raw_files)
    /\ output' = File(html')
    /\ builds' = Append(builds, [written |-> html',
                                 remaining |-> RemainingPlaceholders(html', 1),
                                 returned |-> Len(html')])
    /\ created' = IF output.exists THEN created ELSE created \cup {"dist/index.html"}
    /\ plc' = "deploy"
    /\ UNCHANGED <<pipeline_args, phases, success, raw_dir, template_file, git_dir, q_no,
                   results, queries, processed, commands, exit_status>>
    /\ UNCHANGED <<chapters, chapter_files, raw_files, bpc>>
    /\ UNCHANGED <<parser_vars, render_vars>>

(***************************************************************************)
(* GitHubDeployer.deploy (called by run_deploy) and the end of main        *)
(***************************************************************************)
\* The pre-flight checks, in order.
PREFLIGHT == <<"git --version", "gh --version", "gh auth status">>

\* for f in files_to_add: git add f when the path exists.  dist/ exists when
\* deploy gets here; src/, config.yaml, run_pipeline.py and .gitignore are
\* the repository's own files.
StagingCommands ==
    <<"git add dist/">>
        \o (IF template_file.exists THEN <<"git add templates/">> ELSE <<>>)
        \o <<"git add src/", "git add config.yaml", "git add run_pipeline.py",
             "git add .gitignore">>

\* if success and "deploy" in phases: not taken
DeploySkipped ==
    /\ plc = "deploy"
    /\ ~(success /\ Selected("deploy"))
    /\ plc' = "finish"
    /\ UNCHANGED <<pipeline_args, phases, success, raw_dir, template_file, git_dir, q_no,
                   results, queries, processed, phase_log, commands, created, exit_status>>
    /\ UNCHANGED <<parser_vars, builder_vars, render_vars>>

\* deploy: the k-th pre-flight check fails, return False
DeployToolMissing ==
    /\ plc = "deploy"
    /\ success /\ Selected("deploy")
    /\ \E k \in DOMAIN PREFLIGHT : commands' = commands \o SubSeq(PREFLIGHT, 1, k)
    /\ success' = FALSE
    /\ Called("deploy", "failed")
    /\ plc' = "finish"
    /\ UNCHANGED <<pipeline_args, phases, raw_dir, template_file, git_dir, q_no, results,
                   queries, processed, created, exit_status>>
    /\ UNCHANGED <<parser_vars, builder_vars, render_vars>>

\* deploy: dist/index.html is not there, return False
DeployNoDist ==
    /\ plc = "deploy"
    /\ success /\ Selected("deploy")
    /\ ~output.exists
    /\ commands' = commands \o PREFLIGHT
    /\ success' = FALSE
    /\ Called("deploy", "failed")
    /\ plc' = "finish"
    /\ UNCHANGED <<pipeline_args, phases, raw_dir, template_file, git_dir, q_no, results,
                   queries, processed, created, exit_status>>
    /\ UNCHANGED <<parser_vars, builder_vars, render_vars>>

\* deploy with dry_run: the plan printed, True returned
DeployDryRun ==
    /\ plc = "deploy"
    /\ success /\ Selected("deploy")
    /\ output.exists
    /\ dry_run
    /\ Called("deploy", "ok")
    /\ commands' = commands \o PREFLIGHT
    /\ plc' = "finish"
    /\ UNCHANGED <<pipeline_args, phases, success, raw_dir, template_file, git_dir, q_no,
                   results, queries, processed, created, exit_status>>
    /\ UNCHANGED <<parser_vars, builder_vars, render_vars>>

\* deploy, step 1: git init (and the branch renamed) when there is no .git;
\* return False when git init fails
DeployGitInit ==
    /\ plc = "deploy"
    /\ success /\ Selected("deploy")
    /\ output.exists
    /\ ~dry_run
    /\ \E ok \in BOOLEAN :
           /\ commands' = commands \o PREFLIGHT
                              \o (IF git_dir THEN <<>>
                                  ELSE IF ok THEN <<"git init", "git branch -M main">>
                                  ELSE <<"git init">>)
           /\ git_dir' = (git_dir \/ ok)
           /\ created' = IF ~git_dir /\ ok THEN created \cup {".git"} ELSE created
           /\ success' = (git_dir \/ ok)
           /\ Called("deploy", IF git_dir \/ ok THEN "running" ELSE "failed")
           /\ plc' = IF git_dir \/ ok THEN "deploy_stage" ELSE "finish"
    /\ UNCHANGED <<pipeline_args, phases, raw_dir, template_file, q_no, results, queries, processed,
                   exit_status>>
    /\ UNCHANGED <<parser_vars, builder_vars, render_vars>>

\* deploy, step 2: stage the files, commit when there are staged changes;
\* return False when the commit fails
DeployStage ==
    /\ plc = "deploy_stage"
    /\ \E changes, ok \in BOOLEAN :
           /\ commands' = commands \o StagingCommands \o <<"git diff --cached --quiet">>
                              \o (IF changes THEN <<"git commit">> ELSE <<>>)
           /\ success' = (~changes \/ ok)
           /\ Returns(IF ~changes \/ ok THEN "running" ELSE "failed")
           /\ plc' = IF ~changes \/ ok THEN "deploy_push" ELSE "finish"
    /\ UNCHANGED <<pipeline_args, phases, raw_dir, template_file, git_dir, q_no, results,
                   queries, processed, created, exit_status>>
    /\ UNCHANGED <<parser_vars, builder_vars, render_vars>>

\* deploy, step 3: create the GitHub repository when there is no remote
\* (return False when that fails), else push, and push again with -u when
\* the push fails
DeployPush ==
    /\ plc = "deploy_push"
    /\ \E has_remote, ok \in BOOLEAN :
           /\ commands' = commands \o <<"git remote get-url origin">>
                              \o (IF ~has_remote THEN <<"gh repo create">>
                                  ELSE IF ok THEN <<"git push origin main">>
                                  ELSE <<"git push origin main", "git push -u origin main">>)
           /\ success' = (has_remote \/ ok)
           /\ Returns(IF has_remote \/ ok THEN "running" ELSE "failed")
           /\ plc' = IF has_remote \/ ok THEN "deploy_pages" ELSE "finish"
    /\ UNCHANGED <<pipeline_args, phases, raw_dir, template_file, git_dir, q_no, results,
                   queries, processed, created, exit_status>>
    /\ UNCHANGED <<parser_vars, builder_vars, render_vars>>

\* deploy, step 4: enable GitHub Pages when the user's login is known;
\* return True
DeployPages ==
    /\ plc = "deploy_pages"
    /\ \E owner \in BOOLEAN :
           commands' = commands \o <<"gh api user">>
                           \o (IF owner THEN <<"gh api pages -X POST">> ELSE <<>>)
    /\ plc' = "finish"
    /\ Returns("ok")
    /\ UNCHANGED <<pipeline_args, phases, success, raw_dir, template_file, git_dir, q_no,
                   results, queries, processed, created, exit_status>>
    /\ UNCHANGED <<parser_vars, builder_vars, render_vars>>

\* if success: print PIPELINE COMPLETE (exit status 0)
PipelineComplete ==
    /\ plc = "finish"
    /\ success
    /\ exit_status' = 0
    /\ plc' = "complete"
    /\ UNCHANGED <<pipeline_args, phases, success, raw_dir, template_file, git_dir, q_no,
                   results, queries, processed, phase_log, commands, created>>
    /\ UNCHANGED <<parser_vars, builder_vars, render_vars>>

\* else: print "Pipeline failed." and sys.exit(1)
PipelineFailed ==
    /\ plc = "finish"
    /\ ~success
    /\ exit_status' = 1
    /\ plc' = "failed"
    /\ UNCHANGED <<pipeline_args, phases, success, raw_dir, template_file, git_dir, q_no,
                   results, queries, processed, phase_log, commands, created>>
    /\ UNCHANGED <<parser_vars, builder_vars, render_vars>>

(***************************************************************************)
(* Specifications                                                          *)
(***************************************************************************)
Next ==
    \/ ParseStart
    \/ ParseBlank
    \/ ParseHeading
    \/ ParseSubBullet
    \/ ParseBullet
    \/ ParseTip
    \/ ParseParagraph
    \/ ParseReturn

\* One call of parse on any input text.
Spec == Init /\ [][Next]_vars

NextBuild ==
    \/ BuildStart
    \/ BuildChapterRich
    \/ BuildChapterFallback
    \/ BuildFinish

\* Up to MaxBuilds calls of build on one builder over unchanged files.
SpecBuild == InitBuild /\ [][NextBuild]_vars

NextRender ==
    \/ RenderHeading
    \/ RenderParagraph
    \/ RenderBulletList
    \/ RenderTipBox
    \/ RenderOther
    \/ RenderReturn

\* One call of _sections_to_html on any list of sections.
SpecRender == InitRender /\ [][NextRender]_vars

NextPipeline ==
    \/ PipelineStart
    \/ ExtractSkipped
    \/ RunExtractOverBudget
    \/ RunExtractDryRun
    \/ RunExtractStart
    \/ ExtractQuestion
    \/ RunExtractReturn
    \/ BuildSkipped
    \/ RunBuildNoTemplate
    \/ RunBuildNoRawData
    \/ RunBuildDryRun
    \/ RunBuild
    \/ DeploySkipped
    \/ DeployToolMissing
    \/ DeployNoDist
    \/ DeployDryRun
    \/ DeployGitInit
    \/ DeployStage
    \/ DeployPush
    \/ DeployPages
    \/ PipelineComplete
    \/ PipelineFailed

\* One run of run_pipeline.py on any command line and directory tree.
SpecPipeline == InitPipeline /\ [][NextPipeline]_vars

(***************************************************************************)
(* Properties of ContentParser.parse                                       *)
(***************************************************************************)
Returned == ppc = "done"

BulletLists == {k \in DOMAIN sections : sections[k].type = "bullet_list"}

\* The numbers of the lines a sequence of entries came from.
LinesOf(entries) == [k \in DOMAIN entries |-> entries[k].line]

\* The first line after line j that is not part of j's bullet run (a blank,
\* heading, tip or paragraph line), or the line after the last.
RECURSIVE RunEnd(_)
RunEnd(j) ==
    IF j + 1 > Len(lines) \/ Classify(lines[j + 1]) \notin {"sub", "bullet"} THEN j + 1
    ELSE RunEnd(j + 1)

\* The first top-level bullet line after line j within j's run, or the run's end.
RECURSIVE NextBulletOrEnd(_)
NextBulletOrEnd(j) ==
    IF j + 1 >= RunEnd(j) \/ Classify(lines[j + 1]) = "bullet" THEN j + 1
    ELSE NextBulletOrEnd(j + 1)

\* The sub-bullet texts that belong to the top-level bullet of line j: the
\* lines between it and the next top-level bullet or the end of the run.
OwnSubs(j) ==
    [k \in 1 .. NextBulletOrEnd(j) - j - 1 |->
        SubEntry(CleanText(RE_SUB_BULLET(lines[j + k]).g), j + k)]

\* Sections without the line numbers: what the caller of parse sees.
EntryView(e) ==
    [text |-> e.text, paired |-> e.paired, subs |-> [k \in DOMAIN e.subs |-> e.subs[k].text]]

ItemsView(items) == [k \in DOMAIN items |-> EntryView(items[k])]

\* [("A", ["A1", "A2"]), "B"]
EXAMPLE_NESTED_ITEMS ==
    << [text |-> <<65>>, paired |-> TRUE, subs |-> << <<65, 49>>, <<65, 50>> >>],
       [text |-> <<66>>, paired |-> FALSE, subs |-> <<>>] >>

\* C1: in the returned sections every paired entry of a BulletList has as
\* subitems exactly the sub-bullet lines that lie between its own top-level
\* bullet line and the next top-level bullet line or the end of the bullet run,
\* in input order (so never a sub-bullet line that precedes its bullet); and
\* the example text yields the single BulletList [("A", ["A1", "A2"]), "B"].
C1_SubBulletsFollowTheirBullet ==
    Returned =>
        /\ \A s \in BulletLists : \A k \in DOMAIN sections[s].items :
               LET e == sections[s].items[k]
               IN  e.paired => e.subs = OwnSubs(e.line)
        /\ raw_text = EXAMPLE_NESTED =>
               /\ Len(sections) = 1
               /\ sections[1].type = "bullet_list"
               /\ ItemsView(sections[1].items) = EXAMPLE_NESTED_ITEMS

\* The line numbers carried by the sections, entries and sub-entries of secs,
\* one per text, as a sequence.
EntryOrigins(e) == <<e.line>> \o LinesOf(e.subs)

RECURSIVE ItemOrigins(_)
ItemOrigins(items) ==
    IF items = <<>> THEN <<>> ELSE EntryOrigins(Head(items)) \o ItemOrigins(Tail(items))

RECURSIVE Origins(_)
Origins(secs) ==
    IF secs = <<>> THEN <<>>
    ELSE (IF Head(secs).type = "bullet_list" THEN ItemOrigins(Head(secs).items)
          ELSE <<Head(secs).line>>)
         \o Origins(Tail(secs))

TimesIn(j, seq) == Cardinality({k \in DOMAIN seq : seq[k] = j})

\* C2: parse loses no line: every non-blank line of the input is the source of
\* exactly one Heading, Paragraph or TipBox section or of exactly one entry or
\* sub-entry of a BulletList of the result.
C2_NoLineLost ==
    Returned =>
        \A j \in DOMAIN lines :
            Strip(lines[j]) # <<>> => TimesIn(j, Origins(sections)) = 1

\* C3: every BulletList section emitted has at least one entry, at every point
\* of the scan, and a flush whose top-level accumulator is empty emits no
\* BulletList (the step adds at most the line's own section).
C3_NoEmptyBulletList ==
    /\ [](\A s \in BulletLists : sections[s].items # <<>>)
    /\ [][flush' = "empty" =>
            /\ Len(sections') <= Len(sections) + 1
            /\ SubSeq(sections', 1, Len(sections)) = sections
            /\ \A k \in DOMAIN sections' :
                   k > Len(sections) => sections'[k].type # "bullet_list"]_vars

\* C3's case: a run of sub-bullets only was flushed, and nothing was emitted
\* for it.
C3_Witness ==
    /\ flush = "empty"
    /\ \E j \in DOMAIN lines : j < line_no /\ Classify(lines[j]) = "sub"
    /\ BulletLists = {}

\* "digits . whitespace text": the text that follows the number of a trimmed
\* numbered line s, or <<>> when s is not of that shape.
NumberedRemainder(s) ==
    LET shapes == {dw \in (1 .. Len(s)) \X (1 .. Len(s)) :
                      /\ dw[1] + dw[2] + 2 <= Len(s)
                      /\ \A i \in 1 .. dw[1] : s[i] \in 48 .. 57
                      /\ s[dw[1] + 1] = 46
                      /\ \A i \in dw[1] + 2 .. dw[1] + dw[2] + 1 : s[i] \in WhiteSpace
                      /\ s[dw[1] + dw[2] + 2] \notin WhiteSpace}
    IN  IF shapes = {} THEN <<>>
        ELSE LET dw == CHOOSE x \in shapes : TRUE IN SubSeq(s, dw[1] + dw[2] + 2, Len(s))

AboveThreshold(s) == \E i \in DOMAIN s : s[i] > 126976

SectionsOfLine(j) == {k \in DOMAIN sections : sections[k].line = j}

\* C10: a trimmed line of the shape digits "." whitespace text becomes a
\* Heading exactly when it holds a character above U+1F000, and the Heading's
\* text is then the cleaned remainder after the number; without such a
\* character the line becomes a Paragraph, never a Heading.
C10_HeadingIffEmoji ==
    Returned =>
        \A j \in DOMAIN lines :
            LET s == Strip(lines[j])
                rest == NumberedRemainder(s)
            IN  rest # <<>> =>
                    \E k \in DOMAIN sections :
                        /\ SectionsOfLine(j) = {k}
                        /\ IF AboveThreshold(s)
                           THEN /\ sections[k].type = "h3"
                                /\ sections[k].content = CleanText(rest)
                           ELSE /\ sections[k].type = "paragraph"
                                /\ sections[k].content = CleanText(s)

\* C10's case: a numbered line with a character above U+1F000 was parsed into
\* a Heading.
C10_Witness ==
    /\ Returned
    /\ \E j \in DOMAIN lines :
           /\ NumberedRemainder(Strip(lines[j])) # <<>>
           /\ AboveThreshold(lines[j])
           /\ \E k \in SectionsOfLine(j) : sections[k].type = "h3"

\* The lines of the text as given to parse (before raw_text.strip()).
RawLines == SplitLines(raw_text)

\* Every line of the text is non-blank and matches none of the heading,
\* sub-bullet, bullet and tip-trigger rules.
OnlyPlainLines == \A j \in DOMAIN RawLines : Classify(RawLines[j]) = "paragraph"

\* C11: for a text of plain lines only, the result is one Paragraph per line,
\* in line order, each holding its line's cleaned text, and nothing else: as
\* many sections as lines.
C11_ParagraphPerLine ==
    (Returned /\ OnlyPlainLines) =>
        /\ Len(sections) = Len(RawLines)
        /\ \A j \in DOMAIN sections :
               /\ sections[j].type = "paragraph"
               /\ sections[j].line = j
               /\ sections[j].content = CleanText(Strip(RawLines[j]))

\* C11's case: a text of at least three plain lines, not all alike, was parsed.
C11_Witness ==
    /\ Returned
    /\ OnlyPlainLines
    /\ Len(RawLines) >= 3
    /\ Len(sections) >= 3
    /\ sections[1].content # sections[2].content

\* The variants in their fixed priority order.
VariantOrder == <<"pro", "warning", "danger", "info">>

\* The text s starts with a phrase of the v-th variant followed by ":" or " ".
StartsWithPhraseOf(s, v) ==
    \E t \in DOMAIN TIP_TRIGGERS[v].triggers :
        LET p == TIP_TRIGGERS[v].triggers[t]
        IN  /\ Len(s) > Len(p)
            /\ SubSeq(s, 1, Len(p)) = p
            /\ s[Len(p) + 1] \in {COLON, SP}

PrefixVariants(s) == {v \in DOMAIN VariantOrder : StartsWithPhraseOf(s, v)}

\* C12: the trigger table lists the variants in the order pro, warning,
\* danger, info; a line yields a TipBox exactly when its trimmed text starts
\* with a trigger phrase followed by ":" or a space, and the TipBox's variant
\* is then the first variant in that order having such a phrase, whatever
\* phrases occur later in the line.
C12_TipVariantByPrefix ==
    /\ [k \in DOMAIN TIP_TRIGGERS |-> TIP_TRIGGERS[k].variant] = VariantOrder
    /\ Returned =>
           \A j \in DOMAIN lines :
               LET hits == PrefixVariants(Strip(lines[j]))
                   tips == {k \in SectionsOfLine(j) : sections[k].type = "tip_box"}
               IN  IF hits = {}
                   THEN tips = {}
                   ELSE /\ tips = SectionsOfLine(j)
                        /\ Cardinality(tips) = 1
                        /\ \A k \in tips :
                               sections[k].meta =
                                   VariantOrder[CHOOSE v \in hits : \A w \in hits : v <= w]

\* C12's case: a line that opens with a pro phrase and holds an info phrase
\* later was parsed into a TipBox of variant pro.
C12_Witness ==
    /\ Returned
    /\ raw_text = LINE_PRO_THEN_INFO
    /\ Len(sections) = 1
    /\ sections[1].type = "tip_box"
    /\ sections[1].meta = "pro"

\* The numbers of the lines the texts of a section came from.
SectionLines(sec) ==
    IF sec.type = "bullet_list"
    THEN {ItemOrigins(sec.items)[k] : k \in DOMAIN ItemOrigins(sec.items)}
    ELSE {sec.line}

\* The lines that end a bullet run.
BoundaryKinds == {"blank", "h3", "tip", "paragraph"}

\* The BulletList section that holds the top-level bullet of line j.
ListOfBullet(j) ==
    {s \in BulletLists : \E k \in DOMAIN sections[s].items : sections[s].items[k].line = j}

\* The loop is at a boundary line while a bullet run is open.
AtRunBoundary ==
    /\ ppc = "loop"
    /\ line_no <= Len(lines)
    /\ Classify(lines[line_no]) \in BoundaryKinds
    /\ in_bullet_list

\* C18: the sections are in input line order at every point of the scan, and
\* top-level bullets separated by a blank, heading, tip or paragraph line are
\* in different BulletLists; a step on such a line with a run open empties
\* both accumulators and clears the flag, and emits the run's BulletList (of
\* the accumulated bullets, in order) before the line's own section; the
\* return flushes a still-open run with the pending sub-bullets attached to
\* its last bullet.
C18_RunsEndAtBoundaries ==
    /\ [](/\ \A i, j \in DOMAIN sections :
                 i < j => \A a \in SectionLines(sections[i]) :
                              \A b \in SectionLines(sections[j]) : a < b
          /\ Returned =>
                 \A a, b, c \in DOMAIN lines :
                     (/\ a < c /\ c < b
                      /\ Classify(lines[a]) = "bullet"
                      /\ Classify(lines[b]) = "bullet"
                      /\ Classify(lines[c]) \in BoundaryKinds)
                         => /\ ListOfBullet(a) # {}
                            /\ ListOfBullet(b) # {}
                            /\ ListOfBullet(a) \cap ListOfBullet(b) = {})
    /\ [][/\ AtRunBoundary =>
                 /\ current_bullets' = <<>>
                 /\ current_sub_bullets' = <<>>
                 /\ ~in_bullet_list'
                 /\ current_bullets # <<>> =>
                        LET n == Len(sections)
                            own == Classify(lines[line_no]) # "blank"
                        IN  /\ Len(sections') = n + (IF own THEN 2 ELSE 1)
                            /\ SubSeq(sections', 1, n) = sections
                            /\ sections'[n + 1].type = "bullet_list"
                            /\ LinesOf(sections'[n + 1].items) = LinesOf(current_bullets)
                            /\ own => sections'[n + 2].line = line_no
          /\ (ppc = "loop" /\ ppc' = "done" /\ in_bullet_list /\ current_bullets # <<>>) =>
                 LET n == Len(sections)
                     last == sections'[n + 1].items[Len(current_bullets)]
                 IN  /\ Len(sections') = n + 1
                     /\ sections'[n + 1].type = "bullet_list"
                     /\ LinesOf(sections'[n + 1].items) = LinesOf(current_bullets)
                     /\ last.paired = (current_sub_bullets # <<>>)
                     /\ last.subs = current_sub_bullets]_vars

\* C18's case: parse returned two BulletLists, the second flushed at the end
\* of the input with sub-bullets attached to its last bullet.
C18_Witness ==
    /\ Returned
    /\ Cardinality(BulletLists) >= 2
    /\ sections[Len(sections)].type = "bullet_list"
    /\ sections[Len(sections)].items[Len(sections[Len(sections)].items)].paired

\* The text s holds a dot (and so, possibly, a footnote marker).
HasDot(s) == \E i \in DOMAIN s : s[i] = DOT

\* C19: cleaning removes footnote markers only: the text of a Paragraph made
\* from a line without any dot is the trimmed line itself, digits included.
C19_CleanRemovesMarkersOnly ==
    Returned =>
        \A k \in DOMAIN sections :
            (sections[k].type = "paragraph" /\ ~HasDot(lines[sections[k].line])) =>
                sections[k].content = Strip(lines[sections[k].line])

\* The number of line feeds in the leading whitespace raw_text.strip() removes:
\* line j of lines is line j + SkippedLines of the text given to parse.
SkippedLines ==
    Cardinality({i \in 1 .. RunLen(raw_text, 1, WhiteSpace) : raw_text[i] = NL})

\* The line of the text given to parse that the loop is at.
GivenLine == RawLines[line_no + SkippedLines]

\* C20: whenever the loop is at a line that, as given in the text, is
\* indentation, a sub-bullet glyph, whitespace and text, the step appends the
\* line's cleaned text to the pending sub-bullets, marks the run active and
\* emits no section, wherever the line stands in the text.
C20_SubBulletAnywhere ==
    [][(/\ ppc = "loop"
        /\ line_no <= Len(lines)
        /\ RE_SUB_BULLET(GivenLine).ok)
           => /\ current_sub_bullets' =
                      Append(current_sub_bullets,
                             SubEntry(CleanText(RE_SUB_BULLET(GivenLine).g), line_no))
              /\ in_bullet_list'
              /\ sections' = sections]_vars

(***************************************************************************)
(* Properties of HTMLBuilder.build                                         *)
(***************************************************************************)
\* A call of build has returned (and no other is under way).
Built == bpc = "idle" /\ builds # <<>>

LastBuild == builds[Len(builds)]

HasOverride(ch) == chapter_files[ch.id].exists

\* The chapter the loop took last, while ch_no > 1.
LastChapter == chapters[ch_no - 1]

\* The pieces of s between the occurrences of the non-empty token.
RECURSIVE SplitOn(_, _)
SplitOn(s, token) ==
    LET k == Find(s, token, 1)
    IN  IF k = 0 THEN <<s>>
        ELSE <<SubSeq(s, 1, k - 1)>> \o SplitOn(From(s, k + Len(token)), token)

\* C4: a chapter whose override file exists takes the file's text as its
\* content (no fragment is parsed or rendered for it), and the document
\* written holds that text verbatim at every occurrence of the chapter's
\* placeholder in the template: it is the override text put between the
\* assembled pieces of the template around those occurrences.
C4_OverrideVerbatim ==
    /\ (ch_no > 1 /\ HasOverride(LastChapter)) =>
           content = chapter_files[LastChapter.id].text
    /\ Built =>
           \A k \in DOMAIN chapters :
               HasOverride(chapters[k]) =>
                   LET pieces == SplitOn(template, Placeholder(chapters[k].id))
                   IN  LastBuild.written =
                           Join(chapter_files[chapters[k].id].text,
                                [i \in DOMAIN pieces |->
                                    Substitute(pieces[i], chapters, 1, chapter_files, raw_files)])

Orders(n) == {f \in [1 .. n -> 1 .. n] : \A a, b \in 1 .. n : f[a] = f[b] => a = b}

\* C5: substituting the chapters' contents into the template in any order
\* gives the document build wrote.
C5_OrderIndependent ==
    Built =>
        \A f \in Orders(Len(chapters)) :
            Substitute(template, [k \in DOMAIN chapters |-> chapters[f[k]]], 1,
                       chapter_files, raw_files) = LastBuild.written

\* C6: the content of a chapter without override is never empty, and it is the
\* placeholder notice whenever no fragment contributed any content (every
\* fragment missing, or rendering to empty markup).
C6_NoticeWhenNoContent ==
    (ch_no > 1 /\ ~HasOverride(LastChapter)) =>
        LET parts == RenderedParts(LastChapter.questions, raw_files, 1)
        IN  /\ content # <<>>
            /\ (\A k \in DOMAIN parts : parts[k] = <<>>) => content = PLACEHOLDER_NOTICE

\* No override file and no fragment file of the chapter exists.
NothingOnDisk(ch) ==
    /\ ~HasOverride(ch)
    /\ \A k \in DOMAIN ch.questions : ~raw_files[ch.questions[k]].exists

\* C7: a chapter with no override file and none of its fragment files gets
\* exactly the placeholder notice as its content: the notice is what the step
\* puts for the chapter's placeholder, none of which is left in html after the
\* step, and build goes on to write the document holding the notice.
C7_NoticeWhenNothingOnDisk ==
    /\ (ch_no > 1 /\ NothingOnDisk(LastChapter)) =>
           /\ content = PLACEHOLDER_NOTICE
           /\ Find(html, Placeholder(LastChapter.id), 1) = 0
    /\ Built =>
           \A k \in DOMAIN chapters :
               (NothingOnDisk(chapters[k]) /\ Find(template, Placeholder(chapters[k].id), 1) # 0)
                   => Find(LastBuild.written, PLACEHOLDER_NOTICE, 1) # 0

\* C7's case: build returned after taking a chapter with nothing on disk whose
\* placeholder stood in the template.
C7_Witness ==
    /\ Built
    /\ \E k \in DOMAIN chapters :
           /\ NothingOnDisk(chapters[k])
           /\ Find(template, Placeholder(chapters[k].id), 1) # 0

ConfiguredIds == {chapters[k].id : k \in DOMAIN chapters}

\* C8: every placeholder token of the template whose id is in no chapter of
\* the configuration, whatever the form of the id, is still in the document
\* written and is in the warning's list, and build has written the document
\* and returned its length.
C8_UnconfiguredTokensReported ==
    Built =>
        /\ output = File(LastBuild.written)
        /\ LastBuild.returned = Len(LastBuild.written)
        /\ \A id \in TokenIds \ ConfiguredIds :
               Find(template, Placeholder(id), 1) # 0 =>
                   /\ Find(LastBuild.written, Placeholder(id), 1) # 0
                   /\ \E k \in DOMAIN LastBuild.remaining :
                          LastBuild.remaining[k] = Placeholder(id)

\* C9: all the build calls on a builder over unchanged files write the same
\* document and return the same length, and no step of build changes the
\* stored template, from which every call starts.
C9_BuildIdempotent ==
    /\ [](/\ \A i, j \in DOMAIN builds :
                 /\ builds[i].written = builds[j].written
                 /\ builds[i].returned = builds[j].returned
          /\ (bpc = "chapters" /\ ch_no = 1) => html = template)
    /\ [][template' = template]_vars

\* C9's case: build returned twice, and its substitutions changed the text.
C9_Witness ==
    /\ Len(builds) >= 2
    /\ builds[2].written # template

\* C21: the document that build has written holds no placeholder token of a
\* configured chapter, whatever the template, the override files and the
\* fragments hold (texts that hold placeholder tokens themselves included).
C21_NoConfiguredPlaceholderLeft ==
    Built =>
        \A k \in DOMAIN chapters :
            Find(LastBuild.written, Placeholder(chapters[k].id), 1) = 0

\* <a href="tel:N">N</a>
PhoneLink(n) == TEL_OPEN \o n \o TEL_MID \o n \o TEL_CLOSE

\* The phone-number-shaped substrings of s: 05X, optional dash, three
\* digits, optional dash, four digits.
PhonesIn(s) ==
    {SubSeq(s, p, RE_PHONE(s, p) - 1) : p \in {q \in 1 .. Len(s) : RE_PHONE(s, q) # 0}}

\* The fragment files of chapter ch that exist, in configured order.
ExistingFragments(ch) == SelectSeq(ch.questions, LAMBDA q : raw_files[q].exists)

\* C13: the content generated for a chapter without override holds, for every
\* phone-number-shaped substring N of a line of each of its fragments, the
\* dial link <a href="tel:N">N</a> with the complete number.
C13_PhoneLinksEndToEnd ==
    (ch_no > 1 /\ ~HasOverride(LastChapter)) =>
        \A k \in DOMAIN ExistingFragments(LastChapter) :
            \A n \in PhonesIn(raw_files[ExistingFragments(LastChapter)[k]].text) :
                Find(content, PhoneLink(n), 1) # 0

\* The number of (non-overlapping) occurrences of the non-empty token in s.
CountOf(s, token) == Len(SplitOn(s, token)) - 1

\* C14: for a chapter without override of whose fragment files at least one
\* exists, the content is the rendered markup of the existing fragments only,
\* in configured order, joined by the divider; it holds one divider less than
\* there are existing fragments, and the build that generated it has, once
\* returned, written its document.
C14_MissingFragmentsSkipped ==
    (ch_no > 1 /\ ~HasOverride(LastChapter) /\ ExistingFragments(LastChapter) # <<>>) =>
        LET ex == ExistingFragments(LastChapter)
            rendered == [k \in DOMAIN ex |-> SectionsToHtml(Parse(raw_files[ex[k]].text))]
        IN  /\ content = Join(CHAPTER_DIVIDER, rendered)
            /\ CountOf(content, CHAPTER_DIVIDER) = Len(ex) - 1
            /\ bpc = "idle" => (Built /\ output.exists)

\* C14's case: build returned after generating a chapter from fragments of
\* which the first is missing and the second exists.
C14_Witness ==
    /\ Built
    /\ ch_no > 1
    /\ ~HasOverride(LastChapter)
    /\ Len(LastChapter.questions) = 2
    /\ ~raw_files[LastChapter.questions[1]].exists
    /\ raw_files[LastChapter.questions[2]].exists
    /\ content # <<>>

(***************************************************************************)
(* Properties of HTMLBuilder._sections_to_html                             *)
(***************************************************************************)
\* The place in the local list "parts" of the markup of section number k.
PartIndex(k) == Cardinality({i \in 1 .. k : render_sections[i].type \in RenderedTypes})

KnownVariants == {"pro", "info", "warning", "danger"}

\* The info box for the text "x":
\* <div class="tip-box info">\n<div class="tip-label"><span class="tip-icon">
\* U+2139 U+FE0F</span> (the info label)</div>\n<p>x</p>\n</div>
TIP_INFO_X ==
    <<60, 100, 105, 118, 32, 99, 108, 97, 115, 115, 61, 34, 116, 105, 112, 45, 98, 111, 120,
      32, 105, 110, 102, 111, 34, 62, 10, 60, 100, 105, 118, 32, 99, 108, 97, 115, 115, 61,
      34, 116, 105, 112, 45, 108, 97, 98, 101, 108, 34, 62, 60, 115, 112, 97, 110, 32, 99,
      108, 97, 115, 115, 61, 34, 116, 105, 112, 45, 105, 99, 111, 110, 34, 62, 8505, 65039,
      60, 47, 115, 112, 97, 110, 62, 32, 1502, 1497, 1491, 1506, 60, 47, 100, 105, 118, 62,
      10, 60, 112, 62, 120, 60, 47, 112, 62, 10, 60, 47, 100, 105, 118, 62>>

\* C15: a TipBox whose meta holds no variant, or a variant TIP_CONFIG does not
\* have, is rendered (the loop goes on to its next section) to exactly the
\* markup of the info variant for the same text: for the text "x", the info
\* box with the info css class, icon and label.
C15_UnknownVariantRendersInfo ==
    \A k \in 1 .. sec_no - 1 :
        LET sec == render_sections[k]
        IN  (sec.type = "tip_box" /\ sec.meta \notin KnownVariants) =>
                /\ rendered_parts[PartIndex(k)] = SectionHtml([sec EXCEPT !.meta = "info"])
                /\ sec.content = <<120>> => rendered_parts[PartIndex(k)] = TIP_INFO_X
                /\ rpc = "done" => Find(markup, rendered_parts[PartIndex(k)], 1) # 0

\* C15's case: a TipBox with the variant "tip" was rendered and the call
\* returned.
C15_Witness ==
    /\ rpc = "done"
    /\ Len(render_sections) = 1
    /\ render_sections[1].type = "tip_box"
    /\ render_sections[1].meta = "tip"
    /\ markup = TIP_INFO_X

\* "<ul>", "</ul>" and "<li>"
TAG_UL == <<60, 117, 108, 62>>
TAG_UL_END == <<60, 47, 117, 108, 62>>
TAG_LI == <<60, 108, 105, 62>>

\* The positions of markup s where the tag stands.
TagsAt(s, tag) == {p \in DOMAIN s : StartsWith(From(s, p), tag)}

\* The list depth of markup s at position p: the lists opened before p and
\* not closed before p.
DepthAt(s, p) ==
    Cardinality({q \in TagsAt(s, TAG_UL) : q < p})
        - Cardinality({q \in TagsAt(s, TAG_UL_END) : q < p})

\* The shape of list markup s: outer counts the list elements opened at
\* depth 0, items has one record per list item at depth 1, in order, with the
\* numbers of lists and of list items opened inside it.
ListShape(s) ==
    LET top == {p \in TagsAt(s, TAG_LI) : DepthAt(s, p) = 1}
        nth(i) == CHOOSE p \in top : Cardinality({q \in top : q < p}) = i - 1
        inside(i, q) == nth(i) < q /\ \A r \in top : r > nth(i) => q < r
    IN  [outer |-> Cardinality({p \in TagsAt(s, TAG_UL) : DepthAt(s, p) = 0}),
         items |-> [i \in 1 .. Cardinality(top) |->
                       [lists |-> Cardinality({q \in TagsAt(s, TAG_UL) :
                                                   inside(i, q) /\ DepthAt(s, q) = 1}),
                        subitems |-> Cardinality({q \in TagsAt(s, TAG_LI) :
                                                      inside(i, q) /\ DepthAt(s, q) = 2})]]]

\* The markup of one entry, and of a list of entries, put together from the
\* entries' texts in order.
EntryMarkup(e) ==
    TAG_LI \o EnhanceText(e.text)
        \o (IF e.paired
            THEN <<NL>> \o TAG_UL \o <<NL>>
                     \o Concat([k \in DOMAIN e.subs |->
                                   TAG_LI \o EnhanceText(e.subs[k].text) \o <<60, 47, 108, 105, 62, NL>>])
                     \o TAG_UL_END \o <<NL>>
            ELSE <<>>)
        \o <<60, 47, 108, 105, 62, NL>>

ListMarkup(items) ==
    TAG_UL \o <<NL>> \o Concat([k \in DOMAIN items |-> EntryMarkup(items[k])]) \o TAG_UL_END

\* <ul>\n<li>A</li>\n<li>B\n<ul>\n<li>C</li>\n<li>D</li>\n</ul>\n</li>\n</ul>
EXAMPLE_LIST_MARKUP ==
    <<60, 117, 108, 62, 10, 60, 108, 105, 62, 65, 60, 47, 108, 105, 62, 10, 60, 108, 105, 62,
      66, 10, 60, 117, 108, 62, 10, 60, 108, 105, 62, 67, 60, 47, 108, 105, 62, 10, 60, 108,
      105, 62, 68, 60, 47, 108, 105, 62, 10, 60, 47, 117, 108, 62, 10, 60, 47, 108, 105, 62,
      10, 60, 47, 117, 108, 62>>

\* C16: the markup of a BulletList is one list element with one top-level
\* item per entry, in entry order: the item of a plain entry holds no list,
\* the item of a paired entry holds one nested list with one item per subitem
\* in order; the list ["A", ("B", ["C", "D"])] gives one plain item and one
\* item with a nested two-item list.
C16_ListPerEntry ==
    \A k \in 1 .. sec_no - 1 :
        LET sec == render_sections[k]
            part == rendered_parts[PartIndex(k)]
        IN  sec.type = "bullet_list" =>
                /\ ListShape(part).outer = 1
                /\ ListShape(part).items =
                       [i \in DOMAIN sec.items |->
                           [lists |-> IF sec.items[i].paired THEN 1 ELSE 0,
                            subitems |-> Len(sec.items[i].subs)]]
                /\ part = ListMarkup(sec.items)
                /\ sec.items = <<ENTRY_A, ENTRY_B_CD>> => part = EXAMPLE_LIST_MARKUP

\* C16's case: the list of one plain entry and one paired entry with two
\* subitems was rendered and the call returned.
C16_Witness ==
    /\ rpc = "done"
    /\ Len(render_sections) = 1
    /\ render_sections[1].type = "bullet_list"
    /\ render_sections[1].items = <<ENTRY_A, ENTRY_B_CD>>
    /\ markup = EXAMPLE_LIST_MARKUP

(***************************************************************************)
(* Properties of run_pipeline.main                                         *)
(***************************************************************************)
\* The git and gh commands that change the repository, the remote or the
\* Pages settings.
MutatingCommands ==
    {"git init", "git branch -M main", "git add dist/", "git add templates/", "git add src/",
     "git add config.yaml", "git add run_pipeline.py", "git add .gitignore", "git commit",
     "gh repo create", "git push origin main", "git push -u origin main",
     "gh api pages -X POST"}

\* C17: in a run with --dry-run, at every point of the run and whatever
\* phases are selected, no query has been issued, no build has written the
\* output document, no mutating git or gh command has been run, and no file
\* or directory has been created.
C17_DryRunNoEffects ==
    dry_run =>
        /\ queries = <<>>
        /\ builds = <<>>
        /\ \A k \in DOMAIN commands : commands[k] \notin MutatingCommands
        /\ created = {}

\* The place of a phase in the fixed order.
PhaseIndex(name) == CHOOSE k \in DOMAIN ALL_PHASES : ALL_PHASES[k] = name

\* run_<name> has been called.
Ran(name) == \E k \in DOMAIN phase_log : phase_log[k].phase = name

\* run_<name> has been called and has returned True.
Succeeded(name) ==
    \E k \in DOMAIN phase_log : phase_log[k] = [phase |-> name, result |-> "ok"]

\* C22: the phases that run are selected ones and run in the order extract,
\* build, deploy, however the command line names them; when a phase starts,
\* every selected phase before it has run and returned success, so nothing
\* runs after a failure; build does not run when a question of a selected
\* extract failed to extract or the questions exceed the budget, and deploy
\* does not run when a selected build failed; the run ends with PIPELINE
\* COMPLETE only if every selected phase succeeded, and with exit status 1
\* otherwise.
C22_PhasesGatedAndOrdered ==
    /\ \A b \in DOMAIN phase_log :
           /\ Selected(phase_log[b].phase)
           /\ \A a \in 1 .. b - 1 :
                  /\ PhaseIndex(phase_log[a].phase) < PhaseIndex(phase_log[b].phase)
                  /\ phase_log[a].result = "ok"
           /\ \A name \in PhaseNames :
                  (Selected(name) /\ PhaseIndex(name) < PhaseIndex(phase_log[b].phase)) =>
                      Succeeded(name)
    /\ (Ran("build") /\ Selected("extract")) =>
           /\ Len(questions) <= max_budget
           /\ \A k \in DOMAIN processed : processed[k].written
    /\ (Ran("deploy") /\ Selected("build")) => Succeeded("build")
    /\ plc = "complete" =>
           /\ exit_status = 0
           /\ \A name \in PhaseNames : Selected(name) => Succeeded(name)
    /\ plc = "failed" =>
           /\ exit_status = 1
           /\ \E name \in PhaseNames : Selected(name) /\ ~Succeeded(name)
    /\ exit_status # -1 => plc \in {"complete", "failed"}

\* The record that results holds for the question id q.
ResultOf(q) == results[CHOOSE r \in DOMAIN results : results[r].id = q]

\* C23: extract_all takes the questions one by one in list order, each once;
\* a question gets one query, or two when its first query gave None and
\* retry_attempts > 0, whatever retry_attempts is; results records a
\* question as success exactly when its answer file was written in this run;
\* a question whose queries all failed is recorded as failed and has written
\* no file, and the questions after it are still processed: once run_extract
\* has returned from extract_all, every question has been processed.
C23_EachQuestionOnceAtMostTwoQueries ==
    /\ Len(processed) = q_no - 1
    /\ \A k \in DOMAIN processed :
           /\ processed[k].id = questions[k]
           /\ processed[k].queries = IF processed[k].first = "none" /\ retries > 0 THEN 2 ELSE 1
           /\ \E r \in DOMAIN results : results[r].id = processed[k].id
           /\ ResultOf(processed[k].id).success = processed[k].written
           /\ processed[k].written => raw_files[processed[k].id] = File(ANSWER_TEXT)
    /\ Len(queries) = Len(processed) + Cardinality({k \in DOMAIN processed : processed[k].queries = 2})
    /\ \A q \in QuestionIds :
           q \in created => \E k \in DOMAIN processed : processed[k].id = q /\ processed[k].written
    /\ (Ran("extract") /\ plc # "extract_all" /\ ~dry_run /\ Len(questions) <= max_budget) =>
           Len(processed) = Len(questions)

=============================================================================
